---------------------------- MODULE Spec2Model ----------------------------
(***************************************************************************)
(* Subtitle segment model of audioscribe-sync-play: the segment editor     *)
(* (src/src/utils/srtParser.ts, second definition block, lines 117-565)    *)
(* and the transcript panel that drives it (src/unnamed/part_002), with    *)
(* the current-segment lookup findCurrentSegment in its two versions, the  *)
(* SRT codec (parseSRT, segmentsToSRT, timestampToSeconds, textToSRT in    *)
(* its two versions) and the undo history of the panel.                    *)
(*                                                                         *)
(* Times are JavaScript numbers (seconds) in the source.  The model keeps  *)
(* them on an integer grid of ticks of one millisecond; the only           *)
(* arithmetic the editor does on times is min, max, +, comparison and      *)
(* halving, and a step whose halving would leave the grid is not taken     *)
(* (see AddOnGrid).  The transcripts the panel is loaded with have times   *)
(* of whole seconds, so that the times the panel reaches are binary        *)
(* fractions of a second, on which the source's floating-point arithmetic  *)
(* is exact.                                                               *)
(* A text is a sequence of one-character strings.                          *)
(* List positions are 1-based here and 0-based in the source: position p   *)
(* of the model is index p-1 of the source, and FindIndex returns 0 where  *)
(* findIndex returns -1.                                                   *)
(***************************************************************************)
EXTENDS Integers, Sequences, FiniteSets, TLC

VARIABLES
    segments,   \* the list returned by the last editor call (the caller's new list)
    input,      \* the list that call was given, as it was when the call was made
    passed,     \* the same array as the caller finds it after the call
    call,       \* the call: operation and arguments
    nops,       \* number of editor calls made so far
    start,      \* the list the caller started from
    outcome,    \* how the last codec call ended: threw is TRUE when it threw, value
                \* is <<n>> for a returned number n and <<>> otherwise
    active,     \* what the last findCurrentSegment call returned: the position in
                \* the list of the segment returned, 0 for null
    \* the transcript panel (src/unnamed/part_002), whose list is segments
    transcript,         \* the transcript prop: the subtitle text
    history,            \* the snapshots of the list, oldest first
    historyIndex,       \* 0-based index of the current snapshot, -1 when there is none
    isEditing,
    isSyncing,
    selectedSegments,   \* the IDs selected for a merge, in click order
    editingSegmentId,   \* <<>> for null, <<id>> for the segment whose text is being edited
    editingText,
    currentTime,        \* the currentTime prop: the playback position
    nsteps,             \* number of handlers and effects the panel has run
    currentSegment,     \* <<>> for null, <<segment>> for the highlighted segment
    isSeekingFromClick,
    targetSegmentId,    \* <<>> for null, <<id>> for the ID of the clicked segment
    seekTimeoutRef,     \* <<>> when no timer is pending, else <<c>> for the pending
                        \* timer whose callback closes over c.segments and
                        \* c.currentTime
    \* the audio library (src/src/components/MultiAudioManager.tsx) and its cards
    \* (src/unnamed/part_000); card i is the card of audioFiles[i]
    audioFiles,               \* the audioFiles state of the manager
    upload,                   \* <<>>, or <<u>> for the processFiles call in progress
    isGeneratingTranscript,   \* per card
    showTranscript,           \* per card
    transcriptions            \* per card, the calls of handleGenerateTranscript that
                              \* have not returned: "fetch" for one that awaits the
                              \* audio data, "transcribe" for one that awaits
                              \* transcribeAudio

\* the highlight of the panel and the seek lock
seekVars == <<currentSegment, isSeekingFromClick, targetSegmentId, seekTimeoutRef>>

\* the library and its cards
libraryVars == <<audioFiles, upload, isGeneratingTranscript, showTranscript, transcriptions>>

panelVars == <<transcript, history, historyIndex, isEditing, isSyncing,
               selectedSegments, editingSegmentId, editingText, currentTime, nsteps,
               currentSegment, isSeekingFromClick, targetSegmentId, seekTimeoutRef>>

vars == <<segments, input, passed, call, nops, start, active, outcome, transcript, history, historyIndex,
          isEditing, isSyncing, selectedSegments, editingSegmentId, editingText,
          currentTime, nsteps, currentSegment, isSeekingFromClick, targetSegmentId,
          seekTimeoutRef, audioFiles, upload, isGeneratingTranscript, showTranscript,
          transcriptions>>

---------------------------------------------------------------------------
(* Bounds of the model *)

MaxLen == 3         \* longest initial list
MaxT == 4           \* largest time of an initial list or of an argument, in double ticks
MaxOps == 1         \* longest sequence of editor calls
MaxSteps == 4       \* longest sequence of panel handlers

---------------------------------------------------------------------------
(* Sequences, as the JavaScript array methods the source uses *)

Min(a, b) == IF a <= b THEN a ELSE b
Max(a, b) == IF a >= b THEN a ELSE b

\* s.slice(from, to) with 0-based from (inclusive) and to (exclusive)
Slice(s, from, to) == [i \in 1..Max(0, Min(to, Len(s)) - from) |-> s[from + i]]

\* s.includes(x)
Includes(s, x) == \E i \in 1..Len(s) : s[i] = x

RECURSIVE Flatten(_, _)
\* parts.join(sep) on texts
Flatten(parts, sep) ==
    IF Len(parts) = 0 THEN <<>>
    ELSE IF Len(parts) = 1 THEN parts[1]
    ELSE parts[1] \o sep \o Flatten(Tail(parts), sep)

RECURSIVE IndexOf(_, _, _)
\* the first position at or after i where sep occurs in text, 0 when there is none
IndexOf(text, sep, i) ==
    IF i + Len(sep) - 1 > Len(text) THEN 0
    ELSE IF text[i] = sep[1] /\ SubSeq(text, i, i + Len(sep) - 1) = sep THEN i
    ELSE IndexOf(text, sep, i + 1)

RECURSIVE SplitOn(_, _)
\* text.split(sep) for a non-empty separator sep
SplitOn(text, sep) ==
    LET k == IndexOf(text, sep, 1)
    IN  IF k = 0 THEN <<text>>
        ELSE <<SubSeq(text, 1, k - 1)>>
             \o SplitOn(SubSeq(text, k + Len(sep), Len(text)), sep)

IsSpace(ch) == ch \in {" ", "\n", "\t"}

\* text.trim().length === 0
IsBlank(text) == \A i \in 1..Len(text) : IsSpace(text[i])

RECURSIVE InkFrom(_, _)
\* the first position at or after i that holds no white space, Len(text) + 1
\* when there is none
InkFrom(text, i) ==
    IF i > Len(text) \/ ~IsSpace(text[i]) THEN i ELSE InkFrom(text, i + 1)

RECURSIVE InkUpTo(_, _)
\* the last position at or before i that holds no white space, 0 when there is none
InkUpTo(text, i) ==
    IF i < 1 \/ ~IsSpace(text[i]) THEN i ELSE InkUpTo(text, i - 1)

\* text.trim()
Trim(text) == SubSeq(text, InkFrom(text, 1), InkUpTo(text, Len(text)))

---------------------------------------------------------------------------
(* Segments *)

Seg(id, s, e, text) == [id |-> id, startTime |-> s, endTime |-> e, text |-> text]

\* segments.findIndex(seg => seg.id === id): the first position, 0 when absent
FindIndex(segs, id) ==
    IF \E i \in 1..Len(segs) : segs[i].id = id
    THEN CHOOSE i \in 1..Len(segs) :
             segs[i].id = id /\ \A j \in 1..(i - 1) : segs[j].id # id
    ELSE 0

\* segs.map((seg, index) => ({ ...seg, id: index + 1 }))
Renumber(segs) == [i \in 1..Len(segs) |-> [segs[i] EXCEPT !.id = i]]

RECURSIVE InsertSorted(_, _)
\* one step of a stable insertion: x goes after every element whose startTime
\* is not larger
InsertSorted(sorted, x) ==
    IF Len(sorted) = 0 THEN <<x>>
    ELSE IF sorted[Len(sorted)].startTime <= x.startTime THEN Append(sorted, x)
    ELSE Append(InsertSorted(SubSeq(sorted, 1, Len(sorted) - 1), x), sorted[Len(sorted)])

RECURSIVE SortByStart(_)
\* segs.sort((a, b) => a.startTime - b.startTime): Array.prototype.sort is stable
SortByStart(segs) ==
    IF Len(segs) = 0 THEN <<>>
    ELSE InsertSorted(SortByStart(SubSeq(segs, 1, Len(segs) - 1)), segs[Len(segs)])

---------------------------------------------------------------------------
(* The segment editor: src/src/utils/srtParser.ts *)

\* An optional text argument is <<>> when it is not passed (undefined) and
\* <<t>> when text t is passed.  !arg is true of undefined and of ''.
Falsy(opt) == opt = <<>> \/ opt[1] = <<>>

\* mergeSegments without the final map that reassigns the IDs
mergeSegments_NoRenumber(segs, ids) ==
    IF Len(ids) < 2 THEN segs
    ELSE LET segmentsToMerge == SelectSeq(segs, LAMBDA seg : Includes(ids, seg.id))
         IN  IF Len(segmentsToMerge) < 2 THEN segs
             ELSE LET firstSegment == segmentsToMerge[1]
                      lastSegment == segmentsToMerge[Len(segmentsToMerge)]
                      mergedSegment ==
                          Seg(firstSegment.id, firstSegment.startTime, lastSegment.endTime,
                              Flatten([i \in 1..Len(segmentsToMerge) |-> segmentsToMerge[i].text],
                                      <<" ">>))
                      newSegments ==
                          Append(SelectSeq(segs, LAMBDA seg : ~Includes(ids, seg.id)),
                                 mergedSegment)
                  IN  SortByStart(newSegments)

\* mergeSegments(segments, segmentIdsToMerge).  sortedIds is used only through
\* includes(), so the order of the IDs has no effect and ids stands for it.
mergeSegments(segs, ids) ==
    IF Len(ids) < 2 THEN segs
    ELSE LET segmentsToMerge == SelectSeq(segs, LAMBDA seg : Includes(ids, seg.id))
         IN  IF Len(segmentsToMerge) < 2 THEN segs
             ELSE LET firstSegment == segmentsToMerge[1]
                      lastSegment == segmentsToMerge[Len(segmentsToMerge)]
                      mergedSegment ==
                          Seg(firstSegment.id, firstSegment.startTime, lastSegment.endTime,
                              Flatten([i \in 1..Len(segmentsToMerge) |-> segmentsToMerge[i].text],
                                      <<" ">>))
                      newSegments ==
                          Append(SelectSeq(segs, LAMBDA seg : ~Includes(ids, seg.id)),
                                 mergedSegment)
                  IN  Renumber(SortByStart(newSegments))

\* splitSegment with the validation's comparisons strict, so that a split at a
\* boundary of the segment is carried out
splitSegment_BoundaryAccepted(segs, segmentId, splitTime, firstText, secondText) ==
    LET segmentIndex == FindIndex(segs, segmentId)
    IN  IF segmentIndex = 0 THEN segs
        ELSE LET originalSegment == segs[segmentIndex]
             IN  IF splitTime < originalSegment.startTime \/ splitTime > originalSegment.endTime
                 THEN segs
                 ELSE LET words == SplitOn(originalSegment.text, <<" ">>)
                          midPoint == Len(words) \div 2
                          needDefault == Falsy(firstText) \/ Falsy(secondText)
                          firstPart ==
                              IF needDefault /\ Falsy(firstText)
                              THEN Flatten(Slice(words, 0, midPoint), <<" ">>)
                              ELSE firstText[1]
                          secondPart ==
                              IF needDefault /\ Falsy(secondText)
                              THEN Flatten(Slice(words, midPoint, Len(words)), <<" ">>)
                              ELSE secondText[1]
                          firstSegment ==
                              Seg(originalSegment.id, originalSegment.startTime, splitTime, firstPart)
                          secondSegment ==
                              Seg(originalSegment.id + 1, splitTime, originalSegment.endTime, secondPart)
                      IN  Renumber(SubSeq(segs, 1, segmentIndex - 1)
                                   \o <<firstSegment, secondSegment>>
                                   \o SubSeq(segs, segmentIndex + 1, Len(segs)))

\* splitSegment whose first new segment keeps the original endTime
splitSegment_FirstKeepsEnd(segs, segmentId, splitTime, firstText, secondText) ==
    LET segmentIndex == FindIndex(segs, segmentId)
    IN  IF segmentIndex = 0 THEN segs
        ELSE LET originalSegment == segs[segmentIndex]
             IN  IF splitTime <= originalSegment.startTime \/ splitTime >= originalSegment.endTime
                 THEN segs
                 ELSE LET words == SplitOn(originalSegment.text, <<" ">>)
                          midPoint == Len(words) \div 2
                          needDefault == Falsy(firstText) \/ Falsy(secondText)
                          firstPart ==
                              IF needDefault /\ Falsy(firstText)
                              THEN Flatten(Slice(words, 0, midPoint), <<" ">>)
                              ELSE firstText[1]
                          secondPart ==
                              IF needDefault /\ Falsy(secondText)
                              THEN Flatten(Slice(words, midPoint, Len(words)), <<" ">>)
                              ELSE secondText[1]
                          firstSegment ==
                              Seg(originalSegment.id, originalSegment.startTime, originalSegment.endTime,
                                  firstPart)
                          secondSegment ==
                              Seg(originalSegment.id + 1, splitTime, originalSegment.endTime, secondPart)
                      IN  Renumber(SubSeq(segs, 1, segmentIndex - 1)
                                   \o <<firstSegment, secondSegment>>
                                   \o SubSeq(segs, segmentIndex + 1, Len(segs)))

\* splitSegment(segments, segmentId, splitTime, firstText?, secondText?)
splitSegment(segs, segmentId, splitTime, firstText, secondText) ==
    LET segmentIndex == FindIndex(segs, segmentId)
    IN  IF segmentIndex = 0 THEN segs
        ELSE LET originalSegment == segs[segmentIndex]
             IN  IF splitTime <= originalSegment.startTime \/ splitTime >= originalSegment.endTime
                 THEN segs
                 ELSE LET words == SplitOn(originalSegment.text, <<" ">>)
                          midPoint == Len(words) \div 2
                          needDefault == Falsy(firstText) \/ Falsy(secondText)
                          firstPart ==
                              IF needDefault /\ Falsy(firstText)
                              THEN Flatten(Slice(words, 0, midPoint), <<" ">>)
                              ELSE firstText[1]
                          secondPart ==
                              IF needDefault /\ Falsy(secondText)
                              THEN Flatten(Slice(words, midPoint, Len(words)), <<" ">>)
                              ELSE secondText[1]
                          firstSegment ==
                              Seg(originalSegment.id, originalSegment.startTime, splitTime, firstPart)
                          secondSegment ==
                              Seg(originalSegment.id + 1, splitTime, originalSegment.endTime, secondPart)
                      IN  Renumber(SubSeq(segs, 1, segmentIndex - 1)
                                   \o <<firstSegment, secondSegment>>
                                   \o SubSeq(segs, segmentIndex + 1, Len(segs)))

\* updateSegmentTiming without the update of the next segment's start time
updateSegmentTiming_NextKeepsStart(segs, segmentId, newEndTime) ==
    LET segmentIndex == FindIndex(segs, segmentId)
    IN  IF segmentIndex = 0 THEN segs
        ELSE LET s1 == [segs EXCEPT ![segmentIndex].endTime = newEndTime]
             IN  IF segmentIndex = 1 THEN [s1 EXCEPT ![1].startTime = 0] ELSE s1

\* updateSegmentTiming(segments, segmentId, newEndTime)
updateSegmentTiming(segs, segmentId, newEndTime) ==
    LET segmentIndex == FindIndex(segs, segmentId)
    IN  IF segmentIndex = 0 THEN segs
        ELSE LET s1 == [segs EXCEPT ![segmentIndex].endTime = newEndTime]
                 s2 == IF segmentIndex + 1 <= Len(s1)
                       THEN [s1 EXCEPT ![segmentIndex + 1].startTime = newEndTime]
                       ELSE s1
             IN  IF segmentIndex = 1 THEN [s2 EXCEPT ![1].startTime = 0] ELSE s2

\* updateSegmentText that removes the segment when the new text is blank
updateSegmentText_DropsBlank(segs, segmentId, newText) ==
    LET segmentIndex == FindIndex(segs, segmentId)
    IN  IF segmentIndex = 0 THEN segs
        ELSE IF IsBlank(newText)
        THEN SubSeq(segs, 1, segmentIndex - 1) \o SubSeq(segs, segmentIndex + 1, Len(segs))
        ELSE [segs EXCEPT ![segmentIndex].text = newText]

\* updateSegmentText(segments, segmentId, newText)
updateSegmentText(segs, segmentId, newText) ==
    LET segmentIndex == FindIndex(segs, segmentId)
    IN  IF segmentIndex = 0 THEN segs
        ELSE [segs EXCEPT ![segmentIndex].text = newText]

\* deleteSegment without the front pin
deleteSegment_NoFrontPin(segs, segmentId) ==
    LET segmentIndex == FindIndex(segs, segmentId)
    IN  IF segmentIndex = 0 THEN segs
        ELSE LET removed == SubSeq(segs, 1, segmentIndex - 1)
                            \o SubSeq(segs, segmentIndex + 1, Len(segs))
                 newSegments ==
                     removed
             IN  Renumber(newSegments)

\* deleteSegment without the early return for an ID that is not found:
\* splice(-1, 1) then removes the last segment
deleteSegment_NoGuard(segs, segmentId) ==
    LET segmentIndex == FindIndex(segs, segmentId)
    IN  IF segmentIndex = 0 THEN Renumber(SubSeq(segs, 1, Len(segs) - 1))
        ELSE LET removed == SubSeq(segs, 1, segmentIndex - 1)
                            \o SubSeq(segs, segmentIndex + 1, Len(segs))
                 newSegments ==
                     IF segmentIndex = 1 /\ Len(removed) > 0
                     THEN [removed EXCEPT ![1].startTime = 0]
                     ELSE removed
             IN  Renumber(newSegments)

\* deleteSegment with the front pin applied whichever segment is deleted
deleteSegment_AlwaysPins(segs, segmentId) ==
    LET segmentIndex == FindIndex(segs, segmentId)
    IN  IF segmentIndex = 0 THEN segs
        ELSE LET removed == SubSeq(segs, 1, segmentIndex - 1)
                            \o SubSeq(segs, segmentIndex + 1, Len(segs))
                 newSegments ==
                     IF Len(removed) > 0
                     THEN [removed EXCEPT ![1].startTime = 0]
                     ELSE removed
             IN  Renumber(newSegments)

\* deleteSegment(segments, segmentId)
deleteSegment(segs, segmentId) ==
    LET segmentIndex == FindIndex(segs, segmentId)
    IN  IF segmentIndex = 0 THEN segs
        ELSE LET removed == SubSeq(segs, 1, segmentIndex - 1)
                            \o SubSeq(segs, segmentIndex + 1, Len(segs))
                 newSegments ==
                     IF segmentIndex = 1 /\ Len(removed) > 0
                     THEN [removed EXCEPT ![1].startTime = 0]
                     ELSE removed
             IN  Renumber(newSegments)

\* The position argument of addSegment: 'beginning', 'end' or a number.
Beginning == [kind |-> "beginning", index |-> 0]
AtEnd == [kind |-> "end", index |-> 0]
AtIndex(n) == [kind |-> "index", index |-> n]

\* insertIndex = Math.max(0, Math.min(position, newSegments.length))
InsertIndex(segs, position) == Max(0, Min(position.index, Len(segs)))

\* addSegment halves (nextSegment.startTime - newStartTime) when the new segment
\* reaches the next one; AddOnGrid says that this quotient is a whole tick.
AddOnGrid(segs, position, duration) ==
    LET k == InsertIndex(segs, position)
    IN  (position.kind = "index" /\ 1 <= k /\ k < Len(segs)
         /\ Min(segs[k].endTime + duration, segs[k + 1].startTime) >= segs[k + 1].startTime)
        => (segs[k + 1].startTime - segs[k].endTime) % 2 = 0

\* addSegment(segments, position, text, duration)
addSegment(segs, position, text, duration) ==
    IF position.kind = "beginning"
    THEN IF Len(segs) > 0
         THEN LET firstSegment == segs[1]
                  newEndTime == Min(duration, firstSegment.startTime)
              IN  Renumber(<<Seg(1, 0, newEndTime, text)>>
                           \o [segs EXCEPT ![1].startTime = newEndTime])
         ELSE Renumber(<<Seg(1, 0, duration, text)>>)
    ELSE IF position.kind = "end"
    THEN LET newStartTime == IF Len(segs) > 0 THEN segs[Len(segs)].endTime ELSE 0
         IN  Renumber(Append(segs, Seg(Len(segs) + 1, newStartTime, newStartTime + duration, text)))
    ELSE LET insertIndex == InsertIndex(segs, position)
             hasPrev == insertIndex >= 1
             hasNext == insertIndex < Len(segs)
         IN  IF hasPrev /\ hasNext
             THEN LET prevSegment == segs[insertIndex]
                      nextSegment == segs[insertIndex + 1]
                      newStartTime == prevSegment.endTime
                      fits == Min(newStartTime + duration, nextSegment.startTime)
                      adjust == fits >= nextSegment.startTime
                      newEndTime ==
                          IF adjust
                          THEN newStartTime
                               + Min(duration, (nextSegment.startTime - newStartTime) \div 2)
                          ELSE fits
                      shifted ==
                          IF adjust
                          THEN [segs EXCEPT ![insertIndex + 1].startTime = newEndTime]
                          ELSE segs
                  IN  Renumber(SubSeq(shifted, 1, insertIndex)
                               \o <<Seg(insertIndex + 1, newStartTime, newEndTime, text)>>
                               \o SubSeq(shifted, insertIndex + 1, Len(shifted)))
             ELSE IF hasPrev
             THEN LET newStartTime == segs[insertIndex].endTime
                  IN  Renumber(Append(segs, Seg(insertIndex + 1, newStartTime,
                                                newStartTime + duration, text)))
             ELSE Renumber(<<Seg(insertIndex + 1, 0, duration, text)>> \o segs)

---------------------------------------------------------------------------
(* The editor's arrays and objects in memory.  An editor function gets a   *)
(* reference to the caller's array, whose elements are references to       *)
(* segment objects; arr[1] is the caller's array (the parameter segments), *)
(* every later array is one the function created, and obj holds the        *)
(* objects.  A spread or a filter shares the objects with its source,      *)
(* while splice, push, unshift, sort and an index assignment change the    *)
(* array they are called on.                                               *)

Memory(segs) == [arr |-> <<[i \in 1..Len(segs) |-> i]>>, obj |-> segs]

\* the array the function created last
Newest(m) == Len(m.arr)

\* the segments array a holds now
ArrayValue(m, a) == [i \in 1..Len(m.arr[a]) |-> m.obj[m.arr[a][i]]]

\* [...a]
Spread(m, a) == [m EXCEPT !.arr = Append(@, m.arr[a])]

\* a.filter(seg => sortedIds.includes(seg.id)) when listed is TRUE and
\* a.filter(seg => !sortedIds.includes(seg.id)) when it is FALSE
FilterArray(m, a, ids, listed) ==
    [m EXCEPT !.arr = Append(@, SelectSeq(m.arr[a],
                                          LAMBDA r : Includes(ids, m.obj[r].id) = listed))]

\* a.splice(i - 1, deleteCount, ...objects) with object literals: the array a
\* itself is changed
Splice(m, a, i, deleteCount, objects) ==
    LET refs == [k \in 1..Len(objects) |-> Len(m.obj) + k]
    IN  [arr |-> [m.arr EXCEPT ![a] = SubSeq(@, 1, i - 1) \o refs
                                      \o SubSeq(@, i + deleteCount, Len(@))],
         obj |-> m.obj \o objects]

\* a[i - 1] = { ... }: a new object is put into the array a
AssignAt(m, a, i, object) == Splice(m, a, i, 1, <<object>>)

\* a.push({ ... })
Push(m, a, object) == Splice(m, a, Len(m.arr[a]) + 1, 0, <<object>>)

\* a.unshift({ ... })
Unshift(m, a, object) == Splice(m, a, 1, 0, <<object>>)

\* a.sort((x, y) => x.startTime - y.startTime): the array a itself is sorted
SortArray(m, a) ==
    LET keyed == [i \in 1..Len(m.arr[a]) |->
                     [startTime |-> m.obj[m.arr[a][i]].startTime, ref |-> m.arr[a][i]]]
        sorted == SortByStart(keyed)
    IN  [m EXCEPT !.arr[a] = [i \in 1..Len(sorted) |-> sorted[i].ref]]

\* a.map((seg, index) => ({ ...seg, id: index + 1 })): a new array of new objects
MapRenumber(m, a) ==
    LET objects == Renumber(ArrayValue(m, a))
    IN  [arr |-> Append(m.arr, [k \in 1..Len(objects) |-> Len(m.obj) + k]),
         obj |-> m.obj \o objects]

\* what the caller holds when the function returns array a: its own array,
\* as it is now, and the returned one
Outcome(m, a) == [input |-> ArrayValue(m, 1), result |-> ArrayValue(m, a)]

\* mergeSegments whose sort is applied to the caller's array
mergeSegmentsInMemory_SortsInput(segs, ids) ==
    LET m0 == Memory(segs)
    IN  IF Len(ids) < 2 THEN Outcome(m0, 1)
        ELSE LET m1 == FilterArray(m0, 1, ids, TRUE)
                 segmentsToMerge == ArrayValue(m1, Newest(m1))
             IN  IF Len(segmentsToMerge) < 2 THEN Outcome(m1, 1)
                 ELSE LET mergedSegment ==
                              Seg(segmentsToMerge[1].id, segmentsToMerge[1].startTime,
                                  segmentsToMerge[Len(segmentsToMerge)].endTime,
                                  Flatten([i \in 1..Len(segmentsToMerge) |->
                                              segmentsToMerge[i].text], <<" ">>))
                          m2 == FilterArray(m1, 1, ids, FALSE)
                          newSegments == Newest(m2)
                          m3 == Push(m2, newSegments, mergedSegment)
                          m4 == SortArray(SortArray(m3, newSegments), 1)
                          m5 == MapRenumber(m4, newSegments)
                      IN  Outcome(m5, Newest(m5))

\* mergeSegments, lines 314-342
mergeSegmentsInMemory(segs, ids) ==
    LET m0 == Memory(segs)
    IN  IF Len(ids) < 2 THEN Outcome(m0, 1)
        ELSE LET m1 == FilterArray(m0, 1, ids, TRUE)
                 segmentsToMerge == ArrayValue(m1, Newest(m1))
             IN  IF Len(segmentsToMerge) < 2 THEN Outcome(m1, 1)
                 ELSE LET mergedSegment ==
                              Seg(segmentsToMerge[1].id, segmentsToMerge[1].startTime,
                                  segmentsToMerge[Len(segmentsToMerge)].endTime,
                                  Flatten([i \in 1..Len(segmentsToMerge) |->
                                              segmentsToMerge[i].text], <<" ">>))
                          m2 == FilterArray(m1, 1, ids, FALSE)
                          newSegments == Newest(m2)
                          m3 == Push(m2, newSegments, mergedSegment)
                          m4 == SortArray(m3, newSegments)
                          m5 == MapRenumber(m4, newSegments)
                      IN  Outcome(m5, Newest(m5))

\* splitSegment, lines 345-394; firstSegment and secondSegment carry the
\* texts splitSegment computes
splitSegmentInMemory(segs, segmentId, splitTime, firstText, secondText) ==
    LET m0 == Memory(segs)
        segmentIndex == FindIndex(segs, segmentId)
    IN  IF segmentIndex = 0 THEN Outcome(m0, 1)
        ELSE LET originalSegment == segs[segmentIndex]
             IN  IF splitTime <= originalSegment.startTime \/ splitTime >= originalSegment.endTime
                 THEN Outcome(m0, 1)
                 ELSE LET parts == splitSegment(segs, segmentId, splitTime, firstText, secondText)
                          firstSegment ==
                              Seg(originalSegment.id, originalSegment.startTime, splitTime,
                                  parts[segmentIndex].text)
                          secondSegment ==
                              Seg(originalSegment.id + 1, splitTime, originalSegment.endTime,
                                  parts[segmentIndex + 1].text)
                          m1 == Spread(m0, 1)
                          newSegments == Newest(m1)
                          m2 == Splice(m1, newSegments, segmentIndex, 1,
                                       <<firstSegment, secondSegment>>)
                          m3 == MapRenumber(m2, newSegments)
                      IN  Outcome(m3, Newest(m3))

\* updateSegmentTiming that writes into the caller's array instead of a copy
updateSegmentTimingInMemory_NoCopy(segs, segmentId, newEndTime) ==
    LET m0 == Memory(segs)
        segmentIndex == FindIndex(segs, segmentId)
    IN  IF segmentIndex = 0 THEN Outcome(m0, 1)
        ELSE LET newSegments == 1
                 m2 == AssignAt(m0, newSegments, segmentIndex,
                                [ArrayValue(m0, newSegments)[segmentIndex]
                                     EXCEPT !.endTime = newEndTime])
                 m3 == IF segmentIndex + 1 <= Len(m2.arr[newSegments])
                       THEN AssignAt(m2, newSegments, segmentIndex + 1,
                                     [ArrayValue(m2, newSegments)[segmentIndex + 1]
                                          EXCEPT !.startTime = newEndTime])
                       ELSE m2
                 m4 == IF segmentIndex = 1
                       THEN AssignAt(m3, newSegments, 1,
                                     [ArrayValue(m3, newSegments)[1] EXCEPT !.startTime = 0])
                       ELSE m3
             IN  Outcome(m4, newSegments)

\* updateSegmentTiming, lines 397-430
updateSegmentTimingInMemory(segs, segmentId, newEndTime) ==
    LET m0 == Memory(segs)
        segmentIndex == FindIndex(segs, segmentId)
    IN  IF segmentIndex = 0 THEN Outcome(m0, 1)
        ELSE LET m1 == Spread(m0, 1)
                 newSegments == Newest(m1)
                 m2 == AssignAt(m1, newSegments, segmentIndex,
                                [ArrayValue(m1, newSegments)[segmentIndex]
                                     EXCEPT !.endTime = newEndTime])
                 m3 == IF segmentIndex + 1 <= Len(m2.arr[newSegments])
                       THEN AssignAt(m2, newSegments, segmentIndex + 1,
                                     [ArrayValue(m2, newSegments)[segmentIndex + 1]
                                          EXCEPT !.startTime = newEndTime])
                       ELSE m2
                 m4 == IF segmentIndex = 1
                       THEN AssignAt(m3, newSegments, 1,
                                     [ArrayValue(m3, newSegments)[1] EXCEPT !.startTime = 0])
                       ELSE m3
             IN  Outcome(m4, newSegments)

\* updateSegmentText, lines 433-448
updateSegmentTextInMemory(segs, segmentId, newText) ==
    LET m0 == Memory(segs)
        segmentIndex == FindIndex(segs, segmentId)
    IN  IF segmentIndex = 0 THEN Outcome(m0, 1)
        ELSE LET m1 == Spread(m0, 1)
                 newSegments == Newest(m1)
                 m2 == AssignAt(m1, newSegments, segmentIndex,
                                [ArrayValue(m1, newSegments)[segmentIndex]
                                     EXCEPT !.text = newText])
             IN  Outcome(m2, newSegments)

\* deleteSegment, lines 451-474
deleteSegmentInMemory(segs, segmentId) ==
    LET m0 == Memory(segs)
        segmentIndex == FindIndex(segs, segmentId)
    IN  IF segmentIndex = 0 THEN Outcome(m0, 1)
        ELSE LET m1 == Spread(m0, 1)
                 newSegments == Newest(m1)
                 m2 == Splice(m1, newSegments, segmentIndex, 1, <<>>)
                 m3 == IF segmentIndex = 1 /\ Len(m2.arr[newSegments]) > 0
                       THEN AssignAt(m2, newSegments, 1,
                                     [ArrayValue(m2, newSegments)[1] EXCEPT !.startTime = 0])
                       ELSE m2
                 m4 == MapRenumber(m3, newSegments)
             IN  Outcome(m4, Newest(m4))

\* addSegment, lines 477-565
addSegmentInMemory(segs, position, text, duration) ==
    LET m1 == Spread(Memory(segs), 1)
        newSegments == Newest(m1)
        m2 ==
            IF position.kind = "beginning"
            THEN IF Len(segs) > 0
                 THEN LET firstSegment == ArrayValue(m1, newSegments)[1]
                          newEndTime == Min(duration, firstSegment.startTime)
                      IN  Unshift(AssignAt(m1, newSegments, 1,
                                           [firstSegment EXCEPT !.startTime = newEndTime]),
                                  newSegments, Seg(1, 0, newEndTime, text))
                 ELSE Unshift(m1, newSegments, Seg(1, 0, duration, text))
            ELSE IF position.kind = "end"
            THEN LET newStartTime == IF Len(segs) > 0 THEN segs[Len(segs)].endTime ELSE 0
                 IN  Push(m1, newSegments,
                          Seg(Len(segs) + 1, newStartTime, newStartTime + duration, text))
            ELSE LET insertIndex == InsertIndex(segs, position)
                     hasPrev == insertIndex >= 1
                     hasNext == insertIndex < Len(segs)
                 IN  IF hasPrev /\ hasNext
                     THEN LET prevSegment == ArrayValue(m1, newSegments)[insertIndex]
                              nextSegment == ArrayValue(m1, newSegments)[insertIndex + 1]
                              newStartTime == prevSegment.endTime
                              fits == Min(newStartTime + duration, nextSegment.startTime)
                              adjust == fits >= nextSegment.startTime
                              newEndTime ==
                                  IF adjust
                                  THEN newStartTime
                                       + Min(duration,
                                             (nextSegment.startTime - newStartTime) \div 2)
                                  ELSE fits
                              shifted ==
                                  IF adjust
                                  THEN AssignAt(m1, newSegments, insertIndex + 1,
                                                [nextSegment EXCEPT !.startTime = newEndTime])
                                  ELSE m1
                          IN  Splice(shifted, newSegments, insertIndex + 1, 0,
                                     <<Seg(insertIndex + 1, newStartTime, newEndTime, text)>>)
                     ELSE IF hasPrev
                     THEN LET newStartTime == segs[insertIndex].endTime
                          IN  Splice(m1, newSegments, insertIndex + 1, 0,
                                     <<Seg(insertIndex + 1, newStartTime,
                                           newStartTime + duration, text)>>)
                     ELSE Splice(m1, newSegments, insertIndex + 1, 0,
                                 <<Seg(insertIndex + 1, 0, duration, text)>>)
        m3 == MapRenumber(m2, newSegments)
    IN  Outcome(m3, Newest(m3))

---------------------------------------------------------------------------
(* The current-segment lookup: src/src/utils/srtParser.ts.  The result is  *)
(* the position of the segment object returned, 0 when null is returned.   *)

\* the result of a numeric conversion that finds no number
NaN == "NaN"

\* Number.isNaN(x), for a number or NaN
IsNaN(x) == ToString(x) = ToString(NaN)

\* the null JSON.parse returns for a time that was NaN
null == "null"

\* a time as arithmetic and comparison take it: null counts as 0
ToNumber(x) == IF ToString(x) = ToString(null) THEN 0 ELSE x

\* const tolerance = 0.1, in milliseconds
tolerance == 100

\* closestDistance <= 5, in milliseconds
ClosestRange == 5000

RECURSIVE FirstContaining(_, _, _)
\* lines 71-81: the loop from position i on; the first segment with
\* startTime <= currentTime <= endTime
FirstContaining(segs, time, i) ==
    IF i > Len(segs) THEN 0
    ELSE IF time >= segs[i].startTime /\ time <= segs[i].endTime THEN i
    ELSE FirstContaining(segs, time, i + 1)

\* findCurrentSegment(segments, currentTime) of lines 71-81
findCurrentSegmentStrict(segs, time) == FirstContaining(segs, time, 1)

RECURSIVE FirstWithinTolerance(_, _, _)
\* lines 194-200: the first loop from position i on
FirstWithinTolerance(segs, time, i) ==
    IF i > Len(segs) THEN 0
    ELSE LET startTime == ToNumber(segs[i].startTime)
             endTime == ToNumber(segs[i].endTime)
         IN  IF /\ ~IsNaN(startTime) /\ time >= startTime - tolerance
                /\ ~IsNaN(endTime) /\ time <= endTime + tolerance
             THEN i
             ELSE FirstWithinTolerance(segs, time, i + 1)

\* lines 208-216: the distance of currentTime to a segment; a comparison
\* with NaN is false
Distance(segment, time) ==
    LET startTime == ToNumber(segment.startTime)
        endTime == ToNumber(segment.endTime)
    IN  IF ~IsNaN(startTime) /\ time < startTime THEN startTime - time
        ELSE IF ~IsNaN(endTime) /\ time > endTime THEN time - endTime
        ELSE 0

\* lines 203-204: closestSegment = null, closestDistance = Infinity; a
\* distance is <<>> for Infinity and <<d>> for the number d
NoClosest == [closestSegment |-> 0, closestDistance |-> <<>>]

RECURSIVE ClosestUpTo_LastOnTie(_, _, _)
\* the second loop with distance <= closestDistance
ClosestUpTo_LastOnTie(segs, time, k) ==
    IF k = 0 THEN NoClosest
    ELSE LET closest == ClosestUpTo_LastOnTie(segs, time, k - 1)
             distance == Distance(segs[k], time)
         IN  IF closest.closestDistance = <<>> \/ distance <= closest.closestDistance[1]
             THEN [closestSegment |-> k, closestDistance |-> <<distance>>]
             ELSE closest

RECURSIVE ClosestUpTo_Farthest(_, _, _)
\* the second loop with distance > closestDistance
ClosestUpTo_Farthest(segs, time, k) ==
    IF k = 0 THEN NoClosest
    ELSE LET closest == ClosestUpTo_Farthest(segs, time, k - 1)
             distance == Distance(segs[k], time)
         IN  IF closest.closestDistance = <<>> \/ distance > closest.closestDistance[1]
             THEN [closestSegment |-> k, closestDistance |-> <<distance>>]
             ELSE closest

RECURSIVE ClosestUpTo(_, _, _)
\* lines 206-222: closestSegment and closestDistance after the second loop
\* has run over the first k segments
ClosestUpTo(segs, time, k) ==
    IF k = 0 THEN NoClosest
    ELSE LET closest == ClosestUpTo(segs, time, k - 1)
             distance == Distance(segs[k], time)
         IN  IF closest.closestDistance = <<>> \/ distance < closest.closestDistance[1]
             THEN [closestSegment |-> k, closestDistance |-> <<distance>>]
             ELSE closest

\* findCurrentSegment(segments, currentTime) of lines 187-226
findCurrentSegment(segs, time) ==
    LET within == FirstWithinTolerance(segs, time, 1)
        closest == ClosestUpTo(segs, time, Len(segs))
    IN  IF within # 0 THEN within
        ELSE IF closest.closestDistance # <<>> /\ closest.closestDistance[1] <= ClosestRange
        THEN closest.closestSegment
        ELSE 0

---------------------------------------------------------------------------
(* The format codec: src/src/utils/srtParser.ts.  Times are held in        *)
(* milliseconds, so that HH:MM:SS,mmm is a whole number.                   *)

DigitChars == <<"0", "1", "2", "3", "4", "5", "6", "7", "8", "9">>
IsDigit(ch) == ch \in {"0", "1", "2", "3", "4", "5", "6", "7", "8", "9"}
DigitValue(ch) == (CHOOSE d \in 1..Len(DigitChars) : DigitChars[d] = ch) - 1

RECURSIVE Digits(_)
\* n.toString() for a natural number n
Digits(n) == IF n < 10 THEN <<DigitChars[n + 1]>>
             ELSE Digits(n \div 10) \o <<DigitChars[(n % 10) + 1]>>

RECURSIVE PadStart(_, _, _)
\* chars.padStart(width, pad)
PadStart(chars, width, pad) ==
    IF Len(chars) >= width THEN chars ELSE PadStart(<<pad>> \o chars, width, pad)

RECURSIVE DigitsValue(_)
DigitsValue(chars) ==
    IF Len(chars) = 0 THEN 0
    ELSE 10 * DigitsValue(SubSeq(chars, 1, Len(chars) - 1)) + DigitValue(chars[Len(chars)])

RECURSIVE DigitsFrom(_, _)
\* the first position at or after i that holds no digit
DigitsFrom(chars, i) ==
    IF i > Len(chars) \/ ~IsDigit(chars[i]) THEN i ELSE DigitsFrom(chars, i + 1)

\* The number parseInt(chars) reads, as <<n>>, or <<>> when it reads none:
\* leading white space and a sign are skipped and the longest run of digits
\* is read
ParsedInt(chars) ==
    LET from == InkFrom(chars, 1)
        signed == from <= Len(chars) /\ chars[from] \in {"+", "-"}
        first == IF signed THEN from + 1 ELSE from
        last == DigitsFrom(chars, first) - 1
    IN  IF last < first THEN <<>>
        ELSE IF signed /\ chars[from] = "-" THEN <<0 - DigitsValue(SubSeq(chars, first, last))>>
        ELSE <<DigitsValue(SubSeq(chars, first, last))>>

\* the number read as <<n>>, NaN when none was read as <<>>
NumberOrNaN(parsed) == IF parsed = <<>> THEN NaN ELSE parsed[1]

\* parseInt(chars)
parseInt(chars) == NumberOrNaN(ParsedInt(chars))

\* timestampToSeconds throws a TypeError when the token has fewer than three
\* colon-separated fields: parts[2] is undefined and has no split
TimestampThrows(timestamp) == Len(SplitOn(timestamp, <<":">>)) < 3

\* hours * 3600 + minutes * 60 + seconds + milliseconds / 1000 of the fields
\* read, in milliseconds: <<>> for NaN when a field is NaN
FieldsSum(hours, minutes, seconds, milliseconds) ==
    IF <<>> \in {hours, minutes, seconds, milliseconds} THEN <<>>
    ELSE <<hours[1] * 3600000 + minutes[1] * 60000 + seconds[1] * 1000 + milliseconds[1]>>

\* The number timestampToSeconds(timestamp) returns, in milliseconds, as <<n>>,
\* or <<>> when it returns NaN: a field is not a number or the third field has
\* no comma (parseInt(undefined)).  Fields after the third are not looked at.
\* The millisecond field is read as a count of milliseconds whatever its
\* number of digits; the tokens of the model have three.
ParsedTimestamp(timestamp) ==
    LET parts == SplitOn(timestamp, <<":">>)
        secondsParts == SplitOn(parts[3], <<",">>)
    IN  FieldsSum(ParsedInt(parts[1]), ParsedInt(parts[2]), ParsedInt(secondsParts[1]),
                  IF Len(secondsParts) >= 2 THEN ParsedInt(secondsParts[2]) ELSE <<>>)

\* timestampToSeconds(timestamp), in milliseconds
timestampToSeconds(timestamp) == NumberOrNaN(ParsedTimestamp(timestamp))

\* the result of a call that may throw
Returned(segs) == [threw |-> FALSE, segments |-> segs]
Thrown == [threw |-> TRUE, segments |-> <<>>]

RECURSIVE TextEnd(_, _)
\* the first position at or after i that is past the lines or holds a blank line
TextEnd(lines, i) ==
    IF i > Len(lines) \/ IsBlank(lines[i]) THEN i ELSE TextEnd(lines, i + 1)

RECURSIVE parseBlocks(_, _, _)
\* the while loop of parseSRT, at line i (1-based) with the segments found so far
parseBlocks(lines, i, found) ==
    IF i > Len(lines) THEN Returned(found)
    ELSE IF IsBlank(lines[i]) THEN parseBlocks(lines, i + 1, found)
    ELSE IF i + 1 > Len(lines) THEN Returned(found)
    ELSE LET id == parseInt(lines[i])
             timestamps == SplitOn(lines[i + 1], <<" ", "-", "-", ">", " ">>)
         IN  IF Len(timestamps) # 2 THEN parseBlocks(lines, i + 3, found)
             ELSE IF TimestampThrows(timestamps[1]) \/ TimestampThrows(timestamps[2])
             THEN Thrown
             ELSE LET next == TextEnd(lines, i + 2)
                      text == Flatten(SubSeq(lines, i + 2, next - 1), <<"\n">>)
                  IN  parseBlocks(lines, next,
                                  Append(found, Seg(id, timestampToSeconds(timestamps[1]),
                                                    timestampToSeconds(timestamps[2]), text)))

\* parseSRT(srtContent)
parseSRT(srtContent) == parseBlocks(SplitOn(Trim(srtContent), <<"\n">>), 1, <<>>)

\* Math.floor((seconds % 1) * 1000) is computed in double precision, where a
\* time of whole milliseconds that is not a multiple of 1/8 s is held as the
\* nearest double and the product can fall just below the whole number of
\* milliseconds.  Of the times the model formats these are the ones for
\* which it does, so that the floor is one millisecond short: 2.3 s and
\* 4.1 s as list times, 23.9 s as the value of 24 - 0.1 in textToSRT.
FlooredShort == {2300, 4100, 23900}

\* NaN.toString()
NaNChars == <<"N", "a", "N">>

\* formatSRTTimestamp(seconds) for a time of whole milliseconds or NaN, of
\* which every field is NaN
formatSRTTimestamp(ms) ==
    IF IsNaN(ms)
    THEN NaNChars \o <<":">> \o NaNChars \o <<":">> \o NaNChars \o <<",">> \o NaNChars
    ELSE LET hours == ms \div 3600000
             minutes == (ms % 3600000) \div 60000
             secs == (ms % 60000) \div 1000
             milliseconds == IF ms \in FlooredShort THEN (ms % 1000) - 1 ELSE ms % 1000
         IN  PadStart(Digits(hours), 2, "0") \o <<":">> \o PadStart(Digits(minutes), 2, "0")
             \o <<":">> \o PadStart(Digits(secs), 2, "0") \o <<",">>
             \o PadStart(Digits(milliseconds), 3, "0")

\* one block of SRT text: number line, timing line, text, blank line
SrtBlock(number, startTime, endTime, text) ==
    Digits(number) \o <<"\n">>
    \o formatSRTTimestamp(startTime) \o <<" ", "-", "-", ">", " ">>
    \o formatSRTTimestamp(endTime) \o <<"\n">>
    \o text \o <<"\n", "\n">>

RECURSIVE srtBlocks_SegmentIds(_, _)
\* the forEach loop of segmentsToSRT numbering each block with segment.id
srtBlocks_SegmentIds(validSegments, i) ==
    IF i > Len(validSegments) THEN <<>>
    ELSE SrtBlock(validSegments[i].id, validSegments[i].startTime, validSegments[i].endTime,
                  validSegments[i].text)
         \o srtBlocks_SegmentIds(validSegments, i + 1)

RECURSIVE srtBlocks(_, _)
\* the forEach loop of segmentsToSRT from index i (1-based) on
srtBlocks(validSegments, i) ==
    IF i > Len(validSegments) THEN <<>>
    ELSE SrtBlock(i, validSegments[i].startTime, validSegments[i].endTime, validSegments[i].text)
         \o srtBlocks(validSegments, i + 1)

\* segments.filter(segment => segment.text.trim().length > 0)
DropEmpty(segs) == SelectSeq(segs, LAMBDA seg : ~IsBlank(seg.text))

\* segmentsToSRT(segments)
segmentsToSRT(segs) == srtBlocks(DropEmpty(segs), 1)

---------------------------------------------------------------------------
(* The timing estimate: src/src/utils/srtParser.ts, textToSRT in its two    *)
(* versions.  A duration is a whole number of milliseconds.  The times the *)
(* source computes are fractions of a millisecond; the model holds each as *)
(* a whole number of units, of which a fixed number make a millisecond, so *)
(* that the divisions of the source are exact.                             *)

IsTerminator(ch) == ch \in {".", "!", "?"}

RECURSIVE TerminatorFrom(_, _)
\* the first position at or after i that holds a sentence terminator,
\* Len(text) + 1 when there is none
TerminatorFrom(text, i) ==
    IF i > Len(text) \/ IsTerminator(text[i]) THEN i ELSE TerminatorFrom(text, i + 1)

RECURSIVE TerminatorsEnd(_, _)
\* the first position at or after i that holds no sentence terminator
TerminatorsEnd(text, i) ==
    IF i > Len(text) \/ ~IsTerminator(text[i]) THEN i ELSE TerminatorsEnd(text, i + 1)

RECURSIVE SplitSentences(_)
\* text.split(/[.!?]+/)
SplitSentences(text) ==
    LET k == TerminatorFrom(text, 1)
    IN  IF k > Len(text) THEN <<text>>
        ELSE <<SubSeq(text, 1, k - 1)>>
             \o SplitSentences(SubSeq(text, TerminatorsEnd(text, k), Len(text)))

\* sentence.split(/\s+/).length for a trimmed sentence that is not empty: one
\* more than the number of runs of white space
WordCount(sentence) ==
    1 + Cardinality({i \in 2..Len(sentence) : IsSpace(sentence[i]) /\ ~IsSpace(sentence[i - 1])})

RECURSIVE SumWords(_)
\* sentences.reduce((count, sentence) => count + sentence.split(/\s+/).length, 0)
SumWords(sentences) ==
    IF Len(sentences) = 0 THEN 0
    ELSE WordCount(sentences[1]) + SumWords(Tail(sentences))

\* one block of the text textToSRT builds, for times of unit units to the
\* millisecond: formatSRTTimestamp floors a time to whole milliseconds
TimedBlock(number, startTime, endTime, unit, sentence) ==
    SrtBlock(number, startTime \div unit, endTime \div unit, Trim(sentence))

RECURSIVE uniformBlocks(_, _, _)
\* the forEach loop of lines 106-113 from index i (1-based) on; timePerSentence
\* is duration / sentences.length, and Len(sentences) units make a millisecond
uniformBlocks(sentences, duration, i) ==
    IF i > Len(sentences) THEN <<>>
    ELSE LET unit == Len(sentences)
             startTime == (i - 1) * duration
             endTime == Min(i * duration, duration * unit)
         IN  TimedBlock(i, startTime, endTime, unit, sentences[i])
             \o uniformBlocks(sentences, duration, i + 1)

\* textToSRT(text, duration) of lines 101-116
textToSRTUniform(text, duration) ==
    uniformBlocks(SelectSeq(SplitSentences(text), LAMBDA sentence : ~IsBlank(sentence)),
                  duration, 1)

RECURSIVE weightedBlocks_NoGap(_, _, _, _, _)
\* the forEach loop of lines 270-292 without the gap before the next segment
weightedBlocks_NoGap(sentences, duration, totalWords, i, elapsed) ==
    IF i > Len(sentences) THEN <<>>
    ELSE LET unit == 5 * totalWords
             actualDuration == Min(5 * duration, Max(2000 * totalWords, 4 * duration))
             words == WordCount(sentences[i])
             segmentDuration == Max(1500 * unit, Min(actualDuration * words, 8000 * unit))
             startTime == elapsed   \* currentTime of the source
             endTime == Min(elapsed + segmentDuration, duration * unit)
             adjustedEndTime == Min(endTime + 100 * unit, duration * unit)
         IN  TimedBlock(i, startTime, adjustedEndTime, unit, sentences[i])
             \o weightedBlocks_NoGap(sentences, duration, totalWords, i + 1, endTime)

RECURSIVE weightedBlocks(_, _, _, _, _)
\* the forEach loop of lines 270-292 from index i (1-based) on.  5 * totalWords
\* units make a millisecond: expectedDuration = totalWords / 150 * 60 s is
\* 400 * totalWords ms, duration * 0.8 is 4 * duration fifths of a millisecond
\* and wordRatio = words / totalWords.
weightedBlocks(sentences, duration, totalWords, i, elapsed) ==
    IF i > Len(sentences) THEN <<>>
    ELSE LET unit == 5 * totalWords
             actualDuration == Min(5 * duration, Max(2000 * totalWords, 4 * duration))
             words == WordCount(sentences[i])
             segmentDuration == Max(1500 * unit, Min(actualDuration * words, 8000 * unit))
             startTime == elapsed   \* currentTime of the source
             endTime == Min(elapsed + segmentDuration, duration * unit)
             adjustedEndTime == Min(endTime - 100 * unit, duration * unit)
         IN  TimedBlock(i, startTime, adjustedEndTime, unit, sentences[i])
             \o weightedBlocks(sentences, duration, totalWords, i + 1, endTime)

\* textToSRT(text, duration) of lines 246-295
textToSRT(text, duration) ==
    LET split == SplitSentences(text)
        trimmed == [i \in 1..Len(split) |-> Trim(split[i])]
        sentences == SelectSeq(trimmed, LAMBDA sentence : Len(sentence) > 0)
    IN  IF Len(sentences) = 0 THEN <<>>
        ELSE weightedBlocks(sentences, duration, SumWords(sentences), 1, 0)

---------------------------------------------------------------------------
(* Lists and arguments the editor is exercised with *)

\* Initial lists and time arguments lie on the even ticks, so that a first
\* halving of any distance between them stays on the grid.
Times == {2 * k : k \in 0..MaxT}

\* duration arguments of an insert: a short one and one longer than any gap
Durations == {2, 2 * MaxT}

\* the text of the i-th segment of an initial list: three distinct texts, of
\* one, two and three words, in rotation
InitText(i) ==
    CASE i % 3 = 1 -> <<"a">>
      [] i % 3 = 2 -> <<"b", " ", "c">>
      [] OTHER -> <<"d", " ", "e", " ", "f">>

\* sorted by startTime, adjacent segments disjoint or sharing a boundary
NonOverlapping(segs) == \A i \in 1..(Len(segs) - 1) : segs[i].endTime <= segs[i + 1].startTime
Sorted(segs) == \A i \in 1..(Len(segs) - 1) : segs[i].startTime <= segs[i + 1].startTime
NonDegenerate(segs) == \A i \in 1..Len(segs) : segs[i].startTime < segs[i].endTime
DenseIds(segs) == \A i \in 1..Len(segs) : segs[i].id = i

RECURSIVE ListsFrom(_, _, _)
\* the ways to place segments i..n in time order without overlap at or after
\* time from, each with startTime < endTime, on the grid Times
ListsFrom(from, i, n) ==
    IF i > n THEN {<<>>}
    ELSE UNION {UNION {{<<Seg(i, s, e, InitText(i))>> \o rest :
                           rest \in ListsFrom(e, i + 1, n)} :
                       e \in {t \in Times : t > s}} :
                   s \in {t \in Times : t >= from}}

\* the well-formed lists of n segments: IDs 1..n, startTime < endTime, in time
\* order without overlap
WellFormedLists(n) == ListsFrom(0, 1, n)

RECURSIVE SetToSeq(_)
\* the elements of a finite set of numbers in increasing order
SetToSeq(S) ==
    IF S = {} THEN <<>>
    ELSE LET m == CHOOSE x \in S : \A y \in S : x <= y
         IN  <<m>> \o SetToSeq(S \ {m})

\* ID arguments: every ID of the list and one that is not in it
IdArgs(segs) ==
    LET ids == {segs[i].id : i \in 1..Len(segs)}
        free == (1..(Len(segs) + 1)) \ ids
    IN  ids \cup {CHOOSE n \in free : \A m \in free : n <= m}

\* ID-list arguments of a merge: every selection of at most MaxLen IDs, and an
\* ID given twice
IdListArgs(segs) ==
    {SetToSeq(S) : S \in {X \in SUBSET IdArgs(segs) : Cardinality(X) <= MaxLen}}
    \cup {<<i, i>> : i \in IdArgs(segs)}

\* optional text pairs of a split: none given, or the first one empty and the
\* second one given
SplitTextArgs == {<< <<>>, <<>> >>, << <<<<>>>>, <<<<"y">>>> >>}

\* new texts of an updateText: empty, white space only, a word
NewTexts == {<<>>, <<" ">>, <<"x">>}

PositionArgs(segs) ==
    {Beginning, AtEnd} \cup {AtIndex(n) : n \in (-1)..(Len(segs) + 1)}

\* Subtitle texts the panel is given.  parseSRT takes the number of a block
\* from the text and keeps the blocks in the order of the text.
NumberedTranscript ==
    SrtBlock(1, 0, 2000, <<"a">>) \o SrtBlock(2, 2000, 4000, <<"b", " ", "c">>)
    \o SrtBlock(3, 4000, 6000, <<"d", " ", "e", " ", "f">>)

\* numbered from 7
OffsetTranscript ==
    SrtBlock(7, 0, 2000, <<"a">>) \o SrtBlock(8, 2000, 4000, <<"b", " ", "c">>)

\* the second block has no text line
GapTranscript ==
    SrtBlock(1, 0, 2000, <<"a">>) \o SrtBlock(2, 2000, 4000, <<>>)
    \o SrtBlock(3, 4000, 6000, <<"b", " ", "c">>)

\* the later block comes first
UnorderedTranscript ==
    SrtBlock(1, 4000, 6000, <<"b">>) \o SrtBlock(2, 0, 2000, <<"a">>)

\* the text of the first block takes two lines
TwoLineTranscript ==
    SrtBlock(1, 0, 2000, <<"a", "\n", "b">>) \o SrtBlock(2, 2000, 4000, <<"c">>)

EmptyTranscript == <<>>

\* a timing line whose tokens are not timestamps
BrokenTranscript == <<"1", "\n", "x", " ", "-", "-", ">", " ", "y", "\n", "a">>

Transcripts ==
    {NumberedTranscript, OffsetTranscript, GapTranscript, UnorderedTranscript,
     TwoLineTranscript, EmptyTranscript, BrokenTranscript}

\* the list the panel holds once it has loaded subtitle text t
Loaded(t) ==
    LET parsedSegments == parseSRT(t)
    IN  IF parsedSegments.threw THEN <<>> ELSE DropEmpty(parsedSegments.segments)

LoadedLists == {Loaded(t) : t \in Transcripts}

\* no codec call has been made
NoOutcome == [threw |-> FALSE, value |-> <<>>]

NoCall ==
    [op |-> "none", id |-> 0, ids |-> <<>>, time |-> 0, position |-> Beginning,
     text |-> <<>>, duration |-> 0, firstText |-> <<>>, secondText |-> <<>>,
     cursor |-> -1]

---------------------------------------------------------------------------
(* The editor as a state machine: the caller replaces its list by the list *)
(* each call returns                                                       *)

\* an empty library
NoLibrary ==
    /\ audioFiles = <<>>
    /\ upload = <<>>
    /\ isGeneratingTranscript = <<>>
    /\ showTranscript = <<>>
    /\ transcriptions = <<>>

\* the panel as constructed, before it has loaded anything
Unmounted ==
    /\ NoLibrary
    /\ transcript = <<>>
    /\ history = <<>>
    /\ historyIndex = -1
    /\ isEditing = FALSE
    /\ isSyncing = FALSE
    /\ selectedSegments = <<>>
    /\ editingSegmentId = <<>>
    /\ editingText = <<>>
    /\ currentTime = 0
    /\ nsteps = 0
    /\ currentSegment = <<>>
    /\ isSeekingFromClick = FALSE
    /\ targetSegmentId = <<>>
    /\ seekTimeoutRef = <<>>

\* the editor is given a well-formed list or a list as the panel loads it
Init ==
    /\ segments \in (UNION {WellFormedLists(n) : n \in 0..MaxLen}) \cup LoadedLists
    /\ input = segments
    /\ passed = segments
    /\ active = 0
    /\ outcome = NoOutcome
    /\ call = NoCall
    /\ nops = 0
    /\ start = segments
    /\ Unmounted

\* the editor function of call c run on the array segs
InMemory(c, segs) ==
    CASE c.op = "merge" -> mergeSegmentsInMemory(segs, c.ids)
      [] c.op = "split" ->
             splitSegmentInMemory(segs, c.id, c.time, c.firstText, c.secondText)
      [] c.op = "retime" -> updateSegmentTimingInMemory(segs, c.id, c.time)
      [] c.op = "updateText" -> updateSegmentTextInMemory(segs, c.id, c.text)
      [] c.op = "delete" -> deleteSegmentInMemory(segs, c.id)
      [] c.op = "insert" -> addSegmentInMemory(segs, c.position, c.text, c.duration)

Return(c, result) ==
    /\ input' = segments
    /\ passed' = InMemory(c, segments).input
    /\ call' = c
    /\ segments' = result
    /\ nops' = nops + 1
    /\ UNCHANGED <<start, active, outcome>>

\* a call of an editor function by a caller that holds nothing but the list
Call(c, result) ==
    nops < MaxOps /\ Return(c, result) /\ UNCHANGED panelVars /\ UNCHANGED libraryVars

Merge ==
    \E ids \in IdListArgs(segments) :
        Call([NoCall EXCEPT !.op = "merge", !.ids = ids], mergeSegments(segments, ids))

Split ==
    \E id \in IdArgs(segments), t \in Times, texts \in SplitTextArgs :
        Call([NoCall EXCEPT !.op = "split", !.id = id, !.time = t,
                              !.firstText = texts[1], !.secondText = texts[2]],
               splitSegment(segments, id, t, texts[1], texts[2]))

Retime ==
    \E id \in IdArgs(segments), t \in Times :
        Call([NoCall EXCEPT !.op = "retime", !.id = id, !.time = t],
               updateSegmentTiming(segments, id, t))

UpdateText ==
    \E id \in IdArgs(segments), text \in NewTexts :
        Call([NoCall EXCEPT !.op = "updateText", !.id = id, !.text = text],
               updateSegmentText(segments, id, text))

Delete ==
    \E id \in IdArgs(segments) :
        Call([NoCall EXCEPT !.op = "delete", !.id = id], deleteSegment(segments, id))

Insert ==
    \E position \in PositionArgs(segments), duration \in Durations, text \in {<<"n">>} :
        /\ AddOnGrid(segments, position, duration)
        /\ Call([NoCall EXCEPT !.op = "insert", !.position = position,
                                 !.text = text, !.duration = duration],
                  addSegment(segments, position, text, duration))

Next == Merge \/ Split \/ Retime \/ UpdateText \/ Delete \/ Insert

Spec == Init /\ [][Next]_vars

---------------------------------------------------------------------------
(* The transcript panel: src/unnamed/part_002, lines 53-412.  Each action  *)
(* is one handler or effect together with the state updates it makes; the  *)
(* buttons an action stands for are rendered only in the mode its guard    *)
(* names.  The two effects of the current-segment highlight run on the     *)
(* render that follows a handler and are part of its action.               *)

\* if (newHistory.length > 50)
HistoryLimit == 50

\* addSegment(segments, insertIndex, 'New segment', 5), in milliseconds
NewSegmentDuration == 5000
NewSegmentText == <<"N", "e", "w", " ", "s", "e", "g", "m", "e", "n", "t">>

\* playback positions the currentTime prop takes
PlayTimes == {0, 1000, 3000}

\* texts typed into the text area: white space, a word
TypedTexts == {<<" ">>, <<"x">>}

\* the panel runs at most MaxSteps handlers
CanStep == nsteps < MaxSteps

\* findCurrentSegment(segs, time) as the segment object: <<>> for null
FoundSegment(segs, time) ==
    LET i == findCurrentSegment(segs, time)
    IN  IF i = 0 THEN <<>> ELSE <<segs[i]>>

\* the condition targetSegmentId of the second effect: null, 0 and NaN are
\* falsy
Truthy(target) ==
    /\ target # <<>>
    /\ ~IsNaN(target[1])
    /\ ToString(target[1]) # ToString(null)
    /\ target[1] # 0

\* the effects of lines 130-157, run on the render after a handler that left
\* the highlight current, the lock seeking, the target as given and the
\* timer pending.  The first effect sets the highlight from the list and the
\* playback time unless the lock is held or the list is empty; the second
\* one clears the pending timer and starts one, which closes over the list
\* and the playback time of this render, when the lock is held and the
\* target is truthy.
SeekEffects(current, seeking, target, pending) ==
    /\ isSeekingFromClick' = seeking
    /\ targetSegmentId' = target
    /\ currentSegment' = IF Len(segments') > 0 /\ ~seeking
                         THEN FoundSegment(segments', currentTime')
                         ELSE current
    /\ seekTimeoutRef' = IF seeking /\ Truthy(target)
                         THEN <<[segments |-> segments', currentTime |-> currentTime']>>
                         ELSE pending

\* the effects after a handler that sets neither the highlight nor the lock
Highlight == SeekEffects(currentSegment, isSeekingFromClick, targetSegmentId, seekTimeoutRef)

\* a handler that makes no editor call leaves no call behind
NoEditStep ==
    /\ nsteps' = nsteps + 1
    /\ input' = segments'
    /\ passed' = segments'
    /\ call' = NoCall
    /\ UNCHANGED <<nops, start, active, outcome, libraryVars>>

\* such a handler that sets neither the highlight nor the lock
NoEdit == NoEditStep /\ Highlight

\* parseSRT on the transcripts the panel is given, evaluated once
ParsedTranscripts == [t \in Transcripts |-> parseSRT(t)]

\* parseSRT(transcript) as the panel calls it
Parsed(t) == IF t \in Transcripts THEN ParsedTranscripts[t] ELSE parseSRT(t)

\* JSON.stringify writes null for a number that is NaN
JsonNumber(x) == IF IsNaN(x) THEN null ELSE x

\* JSON.parse(JSON.stringify(segs))
DeepClone(segs) ==
    [i \in 1..Len(segs) |->
        [segs[i] EXCEPT !.id = JsonNumber(@), !.startTime = JsonNumber(@),
                        !.endTime = JsonNumber(@)]]

\* saveToHistory without the limit of 50 states
saveToHistory_NoLimit(newSegments) ==
    /\ history' = Append(Slice(history, 0, historyIndex + 1), DeepClone(newSegments))
    /\ historyIndex' = historyIndex + 1

\* the history and index saveToHistory(newSegments) sets
saveToHistory(newSegments) ==
    LET newHistory == Append(Slice(history, 0, historyIndex + 1), DeepClone(newSegments))
    IN  IF Len(newHistory) > HistoryLimit
        THEN /\ history' = Tail(newHistory)
             /\ UNCHANGED historyIndex
        ELSE /\ history' = newHistory
             /\ historyIndex' = historyIndex + 1

\* updateSegments(newSegments), for the editor call c that made newSegments;
\* no handler that calls it moves the playback time
updateSegments(c, newSegments) ==
    /\ nops < MaxOps
    /\ nsteps' = nsteps + 1
    /\ Return(c, newSegments)
    /\ saveToHistory(newSegments)
    /\ UNCHANGED <<currentTime, libraryVars>>
    /\ Highlight

\* the try block of the load effect once parseSRT has returned
\* parsedSegments, and its catch block when parseSRT has thrown
LoadParsed(parsedSegments) ==
    IF parsedSegments.threw
    THEN /\ segments' = <<>>
         /\ UNCHANGED <<history, historyIndex>>
    ELSE /\ segments' = DropEmpty(parsedSegments.segments)
         /\ IF Len(segments') > 0
            THEN /\ history' = <<DeepClone(segments')>>
                 /\ historyIndex' = 0
            ELSE UNCHANGED <<history, historyIndex>>

\* the effect that runs when the transcript prop is t
LoadEffect(t) == LoadParsed(Parsed(t))

\* the list the load effect sets on the mount
FirstLoad(parsedSegments) ==
    IF parsedSegments.threw THEN <<>> ELSE DropEmpty(parsedSegments.segments)

\* the panel is mounted with transcript t and its load effect has run
Mounted(t) ==
    /\ transcript = t
    /\ segments = FirstLoad(Parsed(transcript))
    /\ history = IF Len(segments) > 0 THEN <<DeepClone(segments)>> ELSE <<>>
    /\ historyIndex = IF Len(segments) > 0 THEN 0 ELSE -1
    /\ input = segments
    /\ passed = segments
    /\ active = 0
    /\ outcome = NoOutcome
    /\ call = NoCall
    /\ nops = 0
    /\ start = segments
    /\ isEditing = FALSE
    /\ isSyncing = FALSE
    /\ selectedSegments = <<>>
    /\ editingSegmentId = <<>>
    /\ editingText = <<>>
    /\ currentTime = 0
    /\ nsteps = 0
    /\ NoLibrary
    /\ currentSegment = IF Len(segments) > 0 THEN FoundSegment(segments, currentTime)
                        ELSE <<>>
    /\ isSeekingFromClick = FALSE
    /\ targetSegmentId = <<>>
    /\ seekTimeoutRef = <<>>

PanelInit == \E t \in Transcripts : Mounted(t)

\* the parent replaces the transcript (an upload or a transcription result)
SetTranscript ==
    \E t \in Transcripts :
        /\ CanStep
        /\ t # transcript
        /\ transcript' = t
        /\ LoadEffect(t)
        /\ UNCHANGED <<isEditing, isSyncing, selectedSegments, editingSegmentId,
                       editingText, currentTime>>
        /\ NoEdit

\* playback moves the currentTime prop
Tick ==
    \E t \in PlayTimes :
        /\ CanStep
        /\ t # currentTime
        /\ currentTime' = t
        /\ UNCHANGED <<segments, transcript, history, historyIndex, isEditing, isSyncing,
                       selectedSegments, editingSegmentId, editingText>>
        /\ NoEdit

startSyncMode ==
    /\ CanStep
    /\ isSyncing' = TRUE
    /\ isEditing' = FALSE
    /\ selectedSegments' = <<>>
    /\ editingSegmentId' = <<>>
    /\ currentTime' = 0
    /\ UNCHANGED <<segments, transcript, history, historyIndex, editingText>>
    /\ NoEdit

\* startEditMode as it leaves sync mode on
startEditMode_KeepsSync ==
    /\ CanStep
    /\ isEditing' = TRUE
    /\ selectedSegments' = <<>>
    /\ editingSegmentId' = <<>>
    /\ UNCHANGED <<segments, transcript, history, historyIndex, isSyncing, editingText,
                   currentTime>>
    /\ NoEdit

startEditMode ==
    /\ CanStep
    /\ isEditing' = TRUE
    /\ isSyncing' = FALSE
    /\ selectedSegments' = <<>>
    /\ editingSegmentId' = <<>>
    /\ UNCHANGED <<segments, transcript, history, historyIndex, editingText, currentTime>>
    /\ NoEdit

\* handleUndo as it sets the index without setting the list
Undo_KeepsList ==
    /\ IF historyIndex > 0 THEN historyIndex' = historyIndex - 1 ELSE UNCHANGED historyIndex
    /\ UNCHANGED <<segments, history>>

\* the body of handleUndo; history[newIndex] is history[historyIndex] 1-based
Undo ==
    /\ IF historyIndex > 0
       THEN /\ historyIndex' = historyIndex - 1
            /\ segments' = history[historyIndex]
       ELSE UNCHANGED <<historyIndex, segments>>
    /\ UNCHANGED history

\* the body of handleRedo; history[newIndex] is history[historyIndex + 2] 1-based
Redo ==
    /\ IF historyIndex < Len(history) - 1
       THEN /\ historyIndex' = historyIndex + 1
            /\ segments' = history[historyIndex + 2]
       ELSE UNCHANGED <<historyIndex, segments>>
    /\ UNCHANGED history

\* disabled={historyIndex <= 0} of the Undo button
UndoDisabled == historyIndex <= 0

\* the Undo button
handleUndo ==
    /\ CanStep
    /\ isEditing \/ isSyncing
    /\ ~UndoDisabled
    /\ Undo
    /\ UNCHANGED <<transcript, isEditing, isSyncing, selectedSegments,
                   editingSegmentId, editingText, currentTime>>
    /\ NoEdit

\* disabled={historyIndex >= history.length - 1} of the Redo button
RedoDisabled == historyIndex >= Len(history) - 1

\* the Redo button
handleRedo ==
    /\ CanStep
    /\ isEditing \/ isSyncing
    /\ ~RedoDisabled
    /\ Redo
    /\ UNCHANGED <<transcript, isEditing, isSyncing, selectedSegments,
                   editingSegmentId, editingText, currentTime>>
    /\ NoEdit

\* onTranscriptUpdate hands the text to the parent, which passes it back as
\* the transcript prop; the load effect runs when the text has changed
handleSave ==
    /\ CanStep
    /\ isEditing \/ isSyncing
    /\ LET updatedSRT == segmentsToSRT(DropEmpty(segments))
       IN  /\ transcript' = updatedSRT
           /\ IF updatedSRT # transcript THEN LoadEffect(updatedSRT)
              ELSE UNCHANGED <<segments, history, historyIndex>>
    /\ isEditing' = FALSE
    /\ isSyncing' = FALSE
    /\ selectedSegments' = <<>>
    /\ UNCHANGED <<editingSegmentId, editingText, currentTime>>
    /\ NoEdit

\* setSegments(validSegments) of handleCancel once parseSRT has returned
\* parsedSegments
Reparsed(parsedSegments) ==
    /\ ~parsedSegments.threw
    /\ segments' = DropEmpty(parsedSegments.segments)

\* parseSRT is called outside any try: when it throws, the handler ends there
handleCancel ==
    /\ CanStep
    /\ isEditing \/ isSyncing
    /\ Reparsed(Parsed(transcript))
    /\ isEditing' = FALSE
    /\ isSyncing' = FALSE
    /\ selectedSegments' = <<>>
    /\ editingSegmentId' = <<>>
    /\ editingText' = <<>>
    /\ UNCHANGED <<transcript, history, historyIndex, currentTime>>
    /\ NoEdit

\* the edit view is rendered
EditView == isEditing /\ ~isSyncing

\* handleSegmentClick in sync mode: the clicked segment ends at currentTime
handleSegmentClickSync ==
    /\ CanStep
    /\ isSyncing
    /\ \E i \in 1..Len(segments) :
           updateSegments([NoCall EXCEPT !.op = "retime", !.id = segments[i].id,
                                         !.time = currentTime],
                          updateSegmentTiming(segments, segments[i].id, currentTime))
    /\ UNCHANGED <<transcript, isEditing, isSyncing, selectedSegments, editingSegmentId,
                   editingText, currentTime>>

\* handleSegmentClick in edit mode, second click of a double click
handleSegmentClickEditText ==
    /\ CanStep
    /\ EditView
    /\ \E i \in 1..Len(segments) :
           /\ editingSegmentId' = <<segments[i].id>>
           /\ editingText' = segments[i].text
    /\ UNCHANGED <<segments, transcript, history, historyIndex, isEditing, isSyncing,
                   selectedSegments, currentTime>>
    /\ NoEdit

\* handleSegmentClick in edit mode, single click: the selection is toggled
handleSegmentClickSelect ==
    /\ CanStep
    /\ EditView
    /\ \E i \in 1..Len(segments) :
           selectedSegments' =
               IF Includes(selectedSegments, segments[i].id)
               THEN SelectSeq(selectedSegments, LAMBDA id : id # segments[i].id)
               ELSE Append(selectedSegments, segments[i].id)
    /\ UNCHANGED <<segments, transcript, history, historyIndex, isEditing, isSyncing,
                   editingSegmentId, editingText, currentTime>>
    /\ NoEdit

\* lines 311-322: the click on segment i in normal mode.  onSeek is the
\* card's handleSeek, which sets the playback time in the same event.
SeekClick(i) ==
    /\ ~isEditing /\ ~isSyncing
    /\ currentTime' = segments[i].startTime
    /\ UNCHANGED segments
    /\ SeekEffects(<<segments[i]>>, TRUE, <<segments[i].id>>, seekTimeoutRef)

\* lines 146-155: the callback of the pending timer runs.  It releases the
\* lock, sets the highlight from the list and the time it closed over and
\* clears the target; the effects follow.
SeekTimeoutFires ==
    /\ seekTimeoutRef # <<>>
    /\ UNCHANGED <<segments, currentTime>>
    /\ SeekEffects(FoundSegment(seekTimeoutRef[1].segments, seekTimeoutRef[1].currentTime),
                   FALSE, <<>>, <<>>)

\* handleSegmentClick in normal mode
handleSegmentClickSeek ==
    /\ CanStep
    /\ \E i \in 1..Len(segments) : SeekClick(i)
    /\ UNCHANGED <<transcript, history, historyIndex, isEditing, isSyncing,
                   selectedSegments, editingSegmentId, editingText>>
    /\ NoEditStep

\* the timer of the seek lock runs out
seekTimeout ==
    /\ CanStep
    /\ SeekTimeoutFires
    /\ UNCHANGED <<transcript, history, historyIndex, isEditing, isSyncing,
                   selectedSegments, editingSegmentId, editingText>>
    /\ NoEditStep

\* the text area of the segment being edited is rendered
TextAreaShown ==
    /\ EditView
    /\ editingSegmentId # <<>>
    /\ FindIndex(segments, editingSegmentId[1]) > 0

\* onChange of the text area
setEditingText ==
    /\ CanStep
    /\ TextAreaShown
    /\ \E text \in TypedTexts : editingText' = text
    /\ UNCHANGED <<segments, transcript, history, historyIndex, isEditing, isSyncing,
                   selectedSegments, editingSegmentId, currentTime>>
    /\ NoEdit

\* handleTextEdit(segment.id, editingText), from the Save button of the text area
handleTextEdit ==
    /\ CanStep
    /\ TextAreaShown
    /\ LET segmentId == editingSegmentId[1]
       IN  IF IsBlank(editingText)
           THEN updateSegments([NoCall EXCEPT !.op = "delete", !.id = segmentId],
                               deleteSegment(segments, segmentId))
           ELSE updateSegments([NoCall EXCEPT !.op = "updateText", !.id = segmentId,
                                              !.text = editingText],
                               updateSegmentText(segments, segmentId, editingText))
    /\ editingSegmentId' = <<>>
    /\ editingText' = <<>>
    /\ UNCHANGED <<transcript, isEditing, isSyncing, selectedSegments, currentTime>>

\* the Cancel button of the text area
discardTextEdit ==
    /\ CanStep
    /\ TextAreaShown
    /\ editingSegmentId' = <<>>
    /\ editingText' = <<>>
    /\ UNCHANGED <<segments, transcript, history, historyIndex, isEditing, isSyncing,
                   selectedSegments, currentTime>>
    /\ NoEdit

handleDeleteSegment ==
    /\ CanStep
    /\ EditView
    /\ \E i \in 1..Len(segments) :
           LET segmentId == segments[i].id
           IN  /\ updateSegments([NoCall EXCEPT !.op = "delete", !.id = segmentId],
                                 deleteSegment(segments, segmentId))
               /\ selectedSegments' = SelectSeq(selectedSegments, LAMBDA id : id # segmentId)
    /\ UNCHANGED <<transcript, isEditing, isSyncing, editingSegmentId, editingText,
                   currentTime>>

handleMergeSegments ==
    /\ CanStep
    /\ EditView
    /\ Len(selectedSegments) >= 2
    /\ updateSegments([NoCall EXCEPT !.op = "merge", !.ids = selectedSegments],
                      mergeSegments(segments, selectedSegments))
    /\ selectedSegments' = <<>>
    /\ UNCHANGED <<transcript, isEditing, isSyncing, editingSegmentId, editingText,
                   currentTime>>

\* handleSplitSegment(segment.id): a split at the midpoint, taken when the
\* midpoint is a whole tick
handleSplitSegment ==
    /\ CanStep
    /\ EditView
    /\ \E i \in 1..Len(segments) :
           LET segmentId == segments[i].id
               segment == segments[FindIndex(segments, segmentId)]
               splitTime == segment.startTime + (segment.endTime - segment.startTime) \div 2
           IN  /\ (segment.endTime - segment.startTime) % 2 = 0
               /\ updateSegments([NoCall EXCEPT !.op = "split", !.id = segmentId,
                                                !.time = splitTime],
                                 splitSegment(segments, segmentId, splitTime, <<>>, <<>>))
    /\ UNCHANGED <<transcript, isEditing, isSyncing, selectedSegments, editingSegmentId,
                   editingText, currentTime>>

\* handleAddSegment(position, segment.id) for position 'before' (offset 0) and
\* 'after' (offset 1)
handleAddSegment ==
    /\ CanStep
    /\ EditView
    /\ \E i \in 1..Len(segments), offset \in {0, 1} :
           LET segmentIndex == FindIndex(segments, segments[i].id) - 1
               insertIndex == AtIndex(segmentIndex + offset)
           IN  /\ AddOnGrid(segments, insertIndex, NewSegmentDuration)
               /\ updateSegments([NoCall EXCEPT !.op = "insert", !.position = insertIndex,
                                                !.text = NewSegmentText,
                                                !.duration = NewSegmentDuration],
                                 addSegment(segments, insertIndex, NewSegmentText,
                                            NewSegmentDuration))
    /\ UNCHANGED <<transcript, isEditing, isSyncing, selectedSegments, editingSegmentId,
                   editingText, currentTime>>

PanelNext ==
    \/ SetTranscript
    \/ Tick
    \/ startSyncMode
    \/ startEditMode
    \/ handleUndo
    \/ handleRedo
    \/ handleSave
    \/ handleCancel
    \/ handleSegmentClickSync
    \/ handleSegmentClickEditText
    \/ handleSegmentClickSelect
    \/ handleSegmentClickSeek
    \/ seekTimeout
    \/ setEditingText
    \/ handleTextEdit
    \/ discardTextEdit
    \/ handleDeleteSegment
    \/ handleMergeSegments
    \/ handleSplitSegment
    \/ handleAddSegment

PanelSpec == PanelInit /\ [][PanelNext]_vars

---------------------------------------------------------------------------
(* The history of the panel over a long session in sync mode: the end of   *)
(* the first segment is marked again and again, one second later each      *)
(* time, with undo and redo in between.                                    *)

\* the session marks at most MaxMarks times in a row
MaxMarks == 51

\* playback positions at which the first segment is marked: the whole
\* seconds after the end of the first segment as loaded
MarkTimes == {1000 * k : k \in 2..(MaxMarks + 1)}

\* two segments, the first of one second
MarkedTranscript ==
    SrtBlock(1, 0, 1000, <<"a">>) \o SrtBlock(2, 1000, 90000, <<"b">>)

\* the same with a last timestamp that lacks its milliseconds, 00:01:30
MalformedEndTranscript ==
    SrtBlock(1, 0, 1000, <<"a">>)
    \o <<"2", "\n">> \o formatSRTTimestamp(1000) \o <<" ", "-", "-", ">", " ">>
    \o SubSeq(formatSRTTimestamp(90000), 1, 8) \o <<"\n", "b", "\n", "\n">>

HistoryTranscripts == {MarkedTranscript, MalformedEndTranscript, EmptyTranscript}

HistoryInit == \E t \in HistoryTranscripts : Mounted(t)

\* a handler of the session leaves the call c behind
Handled(c) ==
    /\ call' = c
    /\ input' = segments
    /\ passed' = segments
    /\ UNCHANGED <<nops, nsteps, start, active, outcome, transcript, isEditing, isSyncing,
                   selectedSegments, editingSegmentId, editingText, libraryVars>>
    /\ Highlight

\* the Sync button, once
EnterSync == ~isSyncing /\ startSyncMode

\* handleSegmentClick on the first segment in sync mode, with playback one
\* second past the end of that segment: updateSegments(updateSegmentTiming(...))
MarkEnd ==
    /\ isSyncing
    /\ Len(segments) > 0
    /\ \E t \in MarkTimes :
           /\ t = segments[1].endTime + 1000
           /\ currentTime' = t
           /\ LET updatedSegments == updateSegmentTiming(segments, segments[1].id, t)
              IN  /\ segments' = updatedSegments
                  /\ saveToHistory(updatedSegments)
           /\ Handled([NoCall EXCEPT !.op = "retime", !.id = segments[1].id, !.time = t])

\* Ctrl+Z, which calls handleUndo whether the Undo button is enabled or not
UndoKey ==
    /\ isEditing \/ isSyncing
    /\ Undo
    /\ UNCHANGED currentTime
    /\ Handled([NoCall EXCEPT !.op = "undo", !.cursor = historyIndex])

\* Ctrl+Y, which calls handleRedo whether the Redo button is enabled or not
RedoKey ==
    /\ isEditing \/ isSyncing
    /\ Redo
    /\ UNCHANGED currentTime
    /\ Handled([NoCall EXCEPT !.op = "redo", !.cursor = historyIndex])

HistoryNext == EnterSync \/ MarkEnd \/ UndoKey \/ RedoKey

HistorySpec == HistoryInit /\ [][HistoryNext]_vars

---------------------------------------------------------------------------
(* A short session in sync mode that can be cancelled: the first segment   *)
(* is marked a few times in a row, and Escape discards the edits.          *)

SessionInit == \E t \in {MarkedTranscript, NumberedTranscript, EmptyTranscript} : Mounted(t)

\* a mark within the first MaxOps + 2 seconds of the audio
EarlyMark == MarkEnd /\ currentTime' <= 1000 * (MaxOps + 2)

\* Escape, which calls handleCancel
CancelKey == (isEditing \/ isSyncing) /\ handleCancel

SessionNext == EnterSync \/ EarlyMark \/ UndoKey \/ RedoKey \/ CancelKey

SessionSpec == SessionInit /\ [][SessionNext]_vars

---------------------------------------------------------------------------
(* Playback in normal mode: the audio element reports the playback time,   *)
(* the user clicks segments to seek, and the timer of the seek lock runs   *)
(* out.  Nothing is counted, so a behaviour can go on for ever.            *)

\* numbered from 0
ZeroTranscript ==
    SrtBlock(0, 0, 2000, <<"a">>) \o SrtBlock(1, 2000, 4000, <<"b", " ", "c">>)

PlaybackTranscripts == {NumberedTranscript, ZeroTranscript, GapTranscript}

\* playback times the audio element reports, in milliseconds; the last one is
\* out of the range of every segment
PlaybackTimes == {0, 1000, 2050, 3000, 5000, 12000}

PlaybackInit == \E t \in PlaybackTranscripts : Mounted(t)

\* a step of the playback leaves the operation op behind and the editor alone
Played(op) ==
    /\ call' = [NoCall EXCEPT !.op = op]
    /\ input' = segments
    /\ passed' = segments
    /\ UNCHANGED <<nops, nsteps, start, active, outcome, transcript, history, historyIndex,
                   isEditing, isSyncing, selectedSegments, editingSegmentId, editingText,
                   libraryVars>>

\* handleTimeUpdate of the card: setCurrentTime(audio.currentTime)
TimeUpdate ==
    \E t \in PlaybackTimes :
        /\ t # currentTime
        /\ currentTime' = t
        /\ UNCHANGED segments
        /\ Highlight
        /\ Played("timeupdate")

\* handleSegmentClick in normal mode
ClickToSeek == (\E i \in 1..Len(segments) : SeekClick(i)) /\ Played("click")

\* the timer of the seek lock runs out
SeekTimeoutRuns == SeekTimeoutFires /\ Played("timeout")

PlaybackNext == TimeUpdate \/ ClickToSeek \/ SeekTimeoutRuns

PlaybackSpec == PlaybackInit /\ [][PlaybackNext]_vars

\* a pending timer that is not cleared runs its callback
PlaybackFairSpec == PlaybackSpec /\ WF_vars(SeekTimeoutRuns)

---------------------------------------------------------------------------
(* The cards of the library: src/unnamed/part_000, lines 32-183.  A call   *)
(* of handleGenerateTranscript runs up to its first await in the click     *)
(* event; what follows an await is an action of its own.                   *)

\* the panel is not shown
NoPanel ==
    /\ segments = <<>>
    /\ input = <<>>
    /\ passed = <<>>
    /\ start = <<>>
    /\ active = 0
    /\ outcome = NoOutcome
    /\ call = NoCall
    /\ nops = 0
    /\ transcript = <<>>
    /\ history = <<>>
    /\ historyIndex = -1
    /\ isEditing = FALSE
    /\ isSyncing = FALSE
    /\ selectedSegments = <<>>
    /\ editingSegmentId = <<>>
    /\ editingText = <<>>
    /\ currentTime = 0
    /\ nsteps = 0
    /\ currentSegment = <<>>
    /\ isSeekingFromClick = FALSE
    /\ targetSegmentId = <<>>
    /\ seekTimeoutRef = <<>>

\* a step of the library leaves the call c behind and the panel alone
LibraryStep(c) ==
    /\ call' = c
    /\ UNCHANGED <<segments, input, passed, nops, start, active, outcome, transcript,
                   history, historyIndex, isEditing, isSyncing, selectedSegments,
                   editingSegmentId, editingText, currentTime, seekVars>>

\* the AudioFile that processFiles makes of an audio file: the name is the
\* file name without its extension
NewAudioFile(fileId, name, originalName) ==
    [id |-> fileId, name |-> name, originalName |-> originalName,
     transcript |-> <<>>, hasTranscript |-> FALSE]

\* two audio files without a transcript, and a card for each
CardInit ==
    /\ NoPanel
    /\ audioFiles = <<NewAudioFile(<<1>>, <<"a">>, <<"a", ".", "m", "p", "3">>),
                      NewAudioFile(<<2>>, <<"b">>, <<"b", ".", "w", "a", "v">>)>>
    /\ upload = <<>>
    /\ isGeneratingTranscript = [i \in 1..2 |-> FALSE]
    /\ showTranscript = [i \in 1..2 |-> FALSE]
    /\ transcriptions = [i \in 1..2 |-> <<>>]

\* handleTranscriptUpdate(id, text) of the manager, as the list it sets
handleTranscriptUpdate(id, text) ==
    [i \in 1..Len(audioFiles) |->
        IF audioFiles[i].id = id
        THEN [audioFiles[i] EXCEPT !.transcript = <<text>>, !.hasTranscript = TRUE]
        ELSE audioFiles[i]]

\* handleGenerateTranscript without the test of the flag
handleGenerateTranscript_NoGuard(i) ==
    /\ CanStep
    /\ nsteps' = nsteps + 1
    /\ ~audioFiles[i].hasTranscript
    /\ isGeneratingTranscript' = [isGeneratingTranscript EXCEPT ![i] = TRUE]
    /\ transcriptions' = [transcriptions EXCEPT ![i] = Append(@, "fetch")]
    /\ UNCHANGED <<audioFiles, upload, showTranscript>>
    /\ LibraryStep([NoCall EXCEPT !.op = "generate", !.id = i])

\* lines 154-164: the Generate button of card i, which is rendered while the
\* audio file has no transcript.  The call returns at once when the flag is
\* set, else it sets the flag and awaits the audio data.
handleGenerateTranscript(i) ==
    /\ CanStep
    /\ nsteps' = nsteps + 1
    /\ ~audioFiles[i].hasTranscript
    /\ IF isGeneratingTranscript[i]
       THEN UNCHANGED <<isGeneratingTranscript, transcriptions>>
       ELSE /\ isGeneratingTranscript' = [isGeneratingTranscript EXCEPT ![i] = TRUE]
            /\ transcriptions' = [transcriptions EXCEPT ![i] = Append(@, "fetch")]
    /\ UNCHANGED <<audioFiles, upload, showTranscript>>
    /\ LibraryStep([NoCall EXCEPT !.op = "generate", !.id = i])

\* the sequence without its position k
Without(seq, k) == SubSeq(seq, 1, k - 1) \o SubSeq(seq, k + 1, Len(seq))

\* lines 177-182: catch and finally of call k of card i
GenerateFails(i, k) ==
    /\ isGeneratingTranscript' = [isGeneratingTranscript EXCEPT ![i] = FALSE]
    /\ transcriptions' = [transcriptions EXCEPT ![i] = Without(@, k)]
    /\ UNCHANGED <<audioFiles, upload, showTranscript, nsteps>>
    /\ LibraryStep([NoCall EXCEPT !.op = "failed", !.id = i])

\* lines 164-166: fetch and blob of call k of card i settle; the call goes on
\* to transcribeAudio, or an await has thrown
AudioFetched(i, k) ==
    /\ transcriptions[i][k] = "fetch"
    /\ \/ /\ transcriptions' = [transcriptions EXCEPT ![i][k] = "transcribe"]
          /\ UNCHANGED <<audioFiles, upload, isGeneratingTranscript, showTranscript, nsteps>>
          /\ LibraryStep([NoCall EXCEPT !.op = "fetched", !.id = i])
       \/ GenerateFails(i, k)

\* what a call of transcribeAudio comes to (AITranscriptionService.ts, lines
\* 205-282): it returns subtitle text, it returns the empty text that
\* textToSRT makes of a text without a sentence, or it throws (no settings,
\* no model, no API key, a provider that fails)
TranscribeOutcomes ==
    {[threw |-> FALSE, value |-> NumberedTranscript],
     [threw |-> FALSE, value |-> textToSRT(<<".">>, 1000)],
     [threw |-> TRUE, value |-> <<>>]}

\* lines 168-182: transcribeAudio of call k of card i settles
Transcribed(i, k) ==
    /\ transcriptions[i][k] = "transcribe"
    /\ \E result \in TranscribeOutcomes :
           IF result.threw THEN GenerateFails(i, k)
           ELSE /\ IF Len(result.value) > 0
                   THEN /\ audioFiles' = handleTranscriptUpdate(audioFiles[i].id, result.value)
                        /\ showTranscript' = [showTranscript EXCEPT ![i] = TRUE]
                   ELSE UNCHANGED <<audioFiles, showTranscript>>
                /\ isGeneratingTranscript' = [isGeneratingTranscript EXCEPT ![i] = FALSE]
                /\ transcriptions' = [transcriptions EXCEPT ![i] = Without(@, k)]
                /\ UNCHANGED <<upload, nsteps>>
                /\ LibraryStep([NoCall EXCEPT !.op = "transcribed", !.id = i,
                                              !.text = result.value])

\* an await of a call of card i settles
Settles(i) ==
    \E k \in 1..Len(transcriptions[i]) : AudioFetched(i, k) \/ Transcribed(i, k)

GenerateClick == \E i \in 1..Len(audioFiles) : handleGenerateTranscript(i)

AwaitSettles == \E i \in 1..Len(audioFiles) : Settles(i)

CardNext == GenerateClick \/ AwaitSettles

CardSpec == CardInit /\ [][CardNext]_vars

\* every promise a call awaits settles: the audio data is a blob of the page,
\* and a request to a provider ends with a response or an error
CardFairSpec == CardSpec /\ \A i \in 1..2 : WF_vars(Settles(i))

---------------------------------------------------------------------------
(* The upload of files to the library:                                     *)
(* src/src/components/MultiAudioManager.tsx, lines 22-192.  A file is a    *)
(* record of its name, its size in bytes and its text; a name is a         *)
(* sequence of characters.  processFiles runs up to its first await in the *)
(* event that hands it the files; each file it processes after that is an  *)
(* action of its own.                                                      *)

MAX_FILE_SIZE == 100 * 1024 * 1024
SUPPORTED_AUDIO_FORMATS ==
    {<<".", "m", "p", "3">>, <<".", "w", "a", "v">>, <<".", "m", "4", "a">>,
     <<".", "o", "g", "g">>}
SUPPORTED_TRANSCRIPT_FORMATS == {<<".", "s", "r", "t">>, <<".", "v", "t", "t">>}

UpperCase ==
    <<"A", "B", "C", "D", "E", "F", "G", "H", "I", "J", "K", "L", "M", "N", "O", "P", "Q",
      "R", "S", "T", "U", "V", "W", "X", "Y", "Z">>
LowerCase ==
    <<"a", "b", "c", "d", "e", "f", "g", "h", "i", "j", "k", "l", "m", "n", "o", "p", "q",
      "r", "s", "t", "u", "v", "w", "x", "y", "z">>

\* chars.toLowerCase()
toLowerCase(chars) ==
    [p \in 1..Len(chars) |->
        IF \E k \in 1..Len(UpperCase) : UpperCase[k] = chars[p]
        THEN LowerCase[CHOOSE k \in 1..Len(UpperCase) : UpperCase[k] = chars[p]]
        ELSE chars[p]]

\* the position of the last "." of name, 0 when it has none
LastDot(name) ==
    LET dots == {p \in 1..Len(name) : name[p] = "."}
    IN  IF dots = {} THEN 0 ELSE CHOOSE p \in dots : \A q \in dots : q <= p

\* '.' + name.split('.').pop()?.toLowerCase()
Extension(name) == <<".">> \o toLowerCase(SubSeq(name, LastDot(name) + 1, Len(name)))

\* name.replace(/\.[^/.]+$/, ""): the last "." and what follows it are
\* removed when at least one character follows and none of them is "/"
BaseName(name) ==
    LET dot == LastDot(name)
    IN  IF /\ dot > 0 /\ dot < Len(name)
           /\ \A q \in (dot + 1)..Len(name) : name[q] # "/"
        THEN SubSeq(name, 1, dot - 1)
        ELSE name

IsAudioFile(file) == Extension(file.name) \in SUPPORTED_AUDIO_FORMATS
IsTranscriptFile(file) == Extension(file.name) \in SUPPORTED_TRANSCRIPT_FORMATS

\* validateFile(file) returns null
IsValidFile(file) ==
    /\ ~(file.size > MAX_FILE_SIZE)
    /\ IsAudioFile(file) \/ IsTranscriptFile(file)

\* files the user has: audio, subtitles in either case of the name, subtitles
\* named after the audio file with its extension, a text file, and an audio
\* file that is too large
UserFiles ==
    {[name |-> <<"a", ".", "m", "p", "3">>, size |-> 1, text |-> <<>>],
     [name |-> <<"c", ".", "W", "A", "V">>, size |-> MAX_FILE_SIZE + 1, text |-> <<>>],
     [name |-> <<"A", ".", "s", "r", "t">>, size |-> 1, text |-> NumberedTranscript],
     [name |-> <<"a", ".", "S", "R", "T">>, size |-> 1, text |-> OffsetTranscript],
     [name |-> <<"a", ".", "m", "p", "3", ".", "v", "t", "t">>, size |-> 1,
      text |-> GapTranscript],
     [name |-> <<"b", ".", "t", "x", "t">>, size |-> 1, text |-> <<"b">>]}

\* what is dropped at once: one file or two
Batches == {<<f>> : f \in UserFiles} \cup {<<f, g>> : f \in UserFiles, g \in UserFiles}

\* the library is empty, or holds the audio file a.mp3 of an earlier upload
UploadInit ==
    /\ NoPanel
    /\ audioFiles \in {<<>>, <<NewAudioFile(<<1>>, <<"a">>, <<"a", ".", "m", "p", "3">>)>>}
    /\ upload = <<>>
    /\ isGeneratingTranscript = [i \in 1..Len(audioFiles) |-> FALSE]
    /\ showTranscript = [i \in 1..Len(audioFiles) |-> FALSE]
    /\ transcriptions = [i \in 1..Len(audioFiles) |-> <<>>]

\* a step of the upload, which is counted
UploadStep(c) ==
    /\ CanStep
    /\ nsteps' = nsteps + 1
    /\ LibraryStep(c)

\* lines 48-80: the drop zone, which is disabled while isUploading is set,
\* hands over files.  processFiles returns when no file is valid; else it sets
\* isUploading and goes through its own audioFiles and transcriptFiles, the
\* valid files of either kind.
processFiles ==
    /\ upload = <<>>
    /\ \E files \in Batches :
           LET validFiles == SelectSeq(files, IsValidFile)
           IN  /\ upload' = IF Len(validFiles) = 0 THEN <<>>
                            ELSE <<[audioFiles |-> SelectSeq(validFiles, IsAudioFile),
                                    transcriptFiles |->
                                        SelectSeq(validFiles, IsTranscriptFile),
                                    done |-> 0]>>
               /\ UNCHANGED <<audioFiles, isGeneratingTranscript, showTranscript,
                              transcriptions>>
               /\ UploadStep([NoCall EXCEPT !.op = "processFiles"])

\* lines 83-152: the next audio file of the call has been loaded; it joins
\* the library under a new ID, and its card is mounted
AudioFileUploaded ==
    /\ upload # <<>>
    /\ upload[1].done < Len(upload[1].audioFiles)
    /\ LET file == upload[1].audioFiles[upload[1].done + 1]
           fileId == <<Len(audioFiles) + 1>>
       IN  /\ audioFiles' = Append(audioFiles,
                                   NewAudioFile(fileId, BaseName(file.name), file.name))
           /\ isGeneratingTranscript' = Append(isGeneratingTranscript, FALSE)
           /\ showTranscript' = Append(showTranscript, FALSE)
           /\ transcriptions' = Append(transcriptions, <<>>)
           /\ upload' = <<[upload[1] EXCEPT !.done = @ + 1]>>
           /\ UploadStep([NoCall EXCEPT !.op = "audio", !.text = file.name])

\* the id of a File object, which has none
undefined == <<>>

\* lines 161-163: the position of the first element of files whose name is
\* baseName but for the case of the letters, 0 when find returns undefined
FindByName(files, baseName) ==
    LET matching == {p \in 1..Len(files) :
                        toLowerCase(files[p].name) = toLowerCase(baseName)}
    IN  IF matching = {} THEN 0 ELSE CHOOSE p \in matching : \A q \in matching : p <= q

\* lines 155-185: the next transcript file of the call has been read.  The
\* audioFiles that is searched is the constant of line 72, the audio File
\* objects of this call, not the state of the component.
TranscriptFileProcessed ==
    /\ upload # <<>>
    /\ upload[1].done >= Len(upload[1].audioFiles)
    /\ upload[1].done < Len(upload[1].audioFiles) + Len(upload[1].transcriptFiles)
    /\ LET file == upload[1].transcriptFiles[upload[1].done - Len(upload[1].audioFiles) + 1]
           content == file.text
           baseName == BaseName(file.name)
           matchingAudio == FindByName(upload[1].audioFiles, baseName)
       IN  /\ audioFiles' =
                  IF matchingAudio # 0
                  THEN [i \in 1..Len(audioFiles) |->
                           IF audioFiles[i].id = undefined
                           THEN [audioFiles[i] EXCEPT !.transcript = <<content>>,
                                                      !.hasTranscript = TRUE]
                           ELSE audioFiles[i]]
                  ELSE audioFiles
           /\ upload' = <<[upload[1] EXCEPT !.done = @ + 1]>>
           /\ UNCHANGED <<isGeneratingTranscript, showTranscript, transcriptions>>
           /\ UploadStep([NoCall EXCEPT !.op = "transcript", !.text = file.name,
                                        !.firstText = content])

\* lines 187-190: both loops are through and the timer has run out
UploadCleared ==
    /\ upload # <<>>
    /\ upload[1].done = Len(upload[1].audioFiles) + Len(upload[1].transcriptFiles)
    /\ upload' = <<>>
    /\ UNCHANGED <<audioFiles, isGeneratingTranscript, showTranscript, transcriptions>>
    /\ UploadStep([NoCall EXCEPT !.op = "cleared"])

UploadNext == processFiles \/ AudioFileUploaded \/ TranscriptFileProcessed \/ UploadCleared

UploadSpec == UploadInit /\ [][UploadNext]_vars

---------------------------------------------------------------------------
(* The lookup as a state machine: findCurrentSegment is called once per    *)
(* playback time on the list the caller holds                              *)

\* segment boundaries in milliseconds: a segment of 50 ms, a gap of 50 ms and
\* gaps and segments of seconds can be built from them
LookupPoints == {0, 50, 2000, 2050, 4000}

RECURSIVE LookupListsFrom(_, _, _)
\* the ways to place segments i..n in time order without overlap at or after
\* time from, each with startTime < endTime, on LookupPoints
LookupListsFrom(from, i, n) ==
    IF i > n THEN {<<>>}
    ELSE UNION {UNION {{<<Seg(i, s, e, InitText(i))>> \o rest :
                           rest \in LookupListsFrom(e, i + 1, n)} :
                       e \in {t \in LookupPoints : t > s}} :
                   s \in {t \in LookupPoints : t >= from}}

LookupLists == (UNION {LookupListsFrom(0, 1, n) : n \in 0..MaxLen}) \cup LoadedLists

\* playback times: the boundaries, the times at and just beyond the tolerance
\* and the range of each boundary, and the midpoints between boundaries
LookupTimes ==
    {t \in UNION {{p - tolerance - 1, p - tolerance, p, p + tolerance, p + tolerance + 1,
                   p + ClosestRange, p + ClosestRange + 1} : p \in LookupPoints} : t >= 0}
    \cup {(p + q) \div 2 : p \in LookupPoints, q \in LookupPoints}

LookupInit ==
    /\ segments \in LookupLists
    /\ input = segments
    /\ passed = segments
    /\ active = 0
    /\ outcome = NoOutcome
    /\ call = NoCall
    /\ nops = 0
    /\ start = segments
    /\ Unmounted

\* a call of a lookup function, which returns position result
Lookup(c, result) ==
    /\ nops < MaxOps
    /\ active' = result
    /\ call' = c
    /\ input' = segments
    /\ passed' = segments
    /\ nops' = nops + 1
    /\ UNCHANGED <<segments, start, outcome, panelVars, libraryVars>>

FindCurrent ==
    \E t \in LookupTimes :
        Lookup([NoCall EXCEPT !.op = "find", !.time = t], findCurrentSegment(segments, t))

FindCurrentStrict ==
    \E t \in LookupTimes :
        Lookup([NoCall EXCEPT !.op = "findStrict", !.time = t],
               findCurrentSegmentStrict(segments, t))

LookupNext == FindCurrent \/ FindCurrentStrict

LookupSpec == LookupInit /\ [][LookupNext]_vars

---------------------------------------------------------------------------
(* The codec as a state machine: a caller serializes the list it holds and *)
(* parses the text it got, or parses a text or a timestamp token it was    *)
(* given                                                                   *)

\* times of the lists that are serialized, in milliseconds: whole seconds,
\* tenths of a second, and a time with hours and minutes
CodecTimes == {0, 100, 2000, 2300, 4100, 3723500}

\* texts of the segments that are serialized: a word, two lines, white space
\* and the empty text
CodecTexts == {<<"a">>, <<"b", "\n", "c">>, <<" ">>, <<>>}

RECURSIVE CodecLayouts(_, _)
\* the ways to place n segments in time order without overlap at or after
\* time from, each with startTime < endTime, on CodecTimes
CodecLayouts(from, n) ==
    IF n = 0 THEN {<<>>}
    ELSE UNION {UNION {{<<[startTime |-> s, endTime |-> e]>> \o rest :
                           rest \in CodecLayouts(e, n - 1)} :
                       e \in {t \in CodecTimes : t > s}} :
                   s \in {t \in CodecTimes : t >= from}}

\* the IDs of a list of n segments: 1..n, or descending from 9
CodecIds(n) == {[i \in 1..n |-> i], [i \in 1..n |-> 9 - i]}

CodecLists ==
    UNION {{[i \in 1..n |-> Seg(ids[i], layout[i].startTime, layout[i].endTime, texts[i])] :
               layout \in CodecLayouts(0, n), texts \in [1..n -> CodecTexts],
               ids \in CodecIds(n)} : n \in 0..MaxLen}

\* The blocks a subtitle text is made of.  A good block has a timing line of
\* two timestamps and one or two text lines; a noArrow block has a second
\* line without the delimiter and up to three text lines; the timing line of
\* a noComma block has a first token without the millisecond field, and that
\* of a noColon block has tokens without colons.
BlockKinds ==
    {[kind |-> "good", lines |-> n] : n \in 1..2}
    \cup {[kind |-> "noArrow", lines |-> n] : n \in 0..3}
    \cup {[kind |-> "noComma", lines |-> 1], [kind |-> "noColon", lines |-> 1]}

BlockSeqs == UNION {[1..n -> BlockKinds] : n \in 0..MaxLen}

\* the text lines of a block
BlockText(block) ==
    Flatten(SubSeq(<< <<"t">>, <<"u">>, <<"v">> >>, 1, block.lines), <<"\n">>)

\* the i-th block of a text lasts from 2(i - 1) s to 2i s
BlockStart(i) == 2000 * (i - 1)
BlockEnd(i) == 2000 * i

\* the timing line of the i-th block
TimingLine(block, i) ==
    CASE block.kind = "good" ->
             formatSRTTimestamp(BlockStart(i)) \o <<" ", "-", "-", ">", " ">>
             \o formatSRTTimestamp(BlockEnd(i))
      [] block.kind = "noArrow" ->
             formatSRTTimestamp(BlockStart(i)) \o <<" ">> \o formatSRTTimestamp(BlockEnd(i))
      [] block.kind = "noComma" ->
             <<"0", "0", ":", "0", "0", ":", "0", "1">> \o <<" ", "-", "-", ">", " ">>
             \o formatSRTTimestamp(BlockEnd(i))
      [] block.kind = "noColon" ->
             <<"x">> \o <<" ", "-", "-", ">", " ">> \o <<"y">>

RECURSIVE RenderFrom(_, _)
\* the text of the blocks from the i-th on, each followed by a blank line
RenderFrom(blocks, i) ==
    IF i > Len(blocks) THEN <<>>
    ELSE Digits(i) \o <<"\n">> \o TimingLine(blocks[i], i) \o <<"\n">>
         \o BlockText(blocks[i]) \o <<"\n", "\n">> \o RenderFrom(blocks, i + 1)

\* the subtitle texts that are parsed, by their blocks
Rendered == [blocks \in BlockSeqs |-> RenderFrom(blocks, 1)]

\* timestamp tokens: two of the form HH:MM:SS,mmm, then tokens of two and of
\* four colon-separated fields, without a comma, without digits, and with
\* fields of one digit
TimestampTokens ==
    {<<"0", "0", ":", "0", "0", ":", "0", "1", ",", "5", "0", "0">>,
     <<"0", "1", ":", "0", "2", ":", "0", "3", ",", "0", "0", "4">>,
     <<"0", "0", ":", "0", "1">>,
     <<"0", "0", ":", "0", "0", ":", "0", "1", ",", "5", "0", "0", ":", "9", "9">>,
     <<"0", "0", ":", "0", "0", ":", "0", "3", ":", "0", "4", ",", "5", "0", "0">>,
     <<"0", "0", ":", "0", "0", ":", "0", "1">>,
     <<"a", "a", ":", "b", "b", ":", "c", "c", ",", "d", "d", "d">>,
     <<"1", ":", "2", ":", "3", ",", "4">>}

CodecInit ==
    /\ segments \in CodecLists
    /\ input = segments
    /\ passed = segments
    /\ active = 0
    /\ outcome = NoOutcome
    /\ call = NoCall
    /\ nops = 0
    /\ start = segments
    /\ Unmounted

\* a codec call c that leaves the caller with text srt and list segs
CodecCall(c, srt, segs, result) ==
    /\ CanStep
    /\ nsteps' = nsteps + 1
    /\ call' = c
    /\ input' = segments
    /\ passed' = segments
    /\ transcript' = srt
    /\ segments' = segs
    /\ outcome' = result
    /\ UNCHANGED <<nops, start, active, history, historyIndex, isEditing, isSyncing,
                   selectedSegments, editingSegmentId, editingText, currentTime, seekVars,
                   libraryVars>>

\* the caller parses text srt and holds the segments parseSRT returns, or its
\* old list when parseSRT throws
ParseCall(srt) ==
    LET parsedSegments == parseSRT(srt)
    IN  CodecCall([NoCall EXCEPT !.op = "parse", !.text = srt], srt,
                  IF parsedSegments.threw THEN segments ELSE parsedSegments.segments,
                  [threw |-> parsedSegments.threw, value |-> <<>>])

\* segmentsToSRT on the list the caller holds
Serialize ==
    /\ call.op \in {"none", "parse"}
    /\ CodecCall([NoCall EXCEPT !.op = "serialize"], segmentsToSRT(segments), segments,
                 NoOutcome)

\* parseSRT on the text that was serialized
ParseBack == call.op = "serialize" /\ ParseCall(transcript)

\* parseSRT on a text the caller was given
ParseText ==
    /\ call.op = "none" /\ segments = <<>>
    /\ \E blocks \in BlockSeqs : ParseCall(Rendered[blocks])

\* timestampToSeconds on a token the caller was given
ParseTimestamp ==
    /\ call.op = "none" /\ segments = <<>>
    /\ \E token \in TimestampTokens :
           CodecCall([NoCall EXCEPT !.op = "timestamp", !.text = token], transcript, segments,
                     IF TimestampThrows(token) THEN [threw |-> TRUE, value |-> <<>>]
                     ELSE [threw |-> FALSE, value |-> ParsedTimestamp(token)])

\* texts and durations the timing estimate is exercised with
ProseTexts ==
    {<<"A", ".", " ", "B", ".", " ", "C", ".">>, <<"A", " ", "b", ".", " ", "C", "!">>,
     <<"A">>, <<" ", ".">>, <<>>}

AudioDurations == {1000, 10000, 30000}

\* the caller estimates the timing of prose with srt the text textToSRT
\* returns, and holds the segments that text parses to
EstimateCall(op, prose, duration, srt) ==
    LET parsedSegments == parseSRT(srt)
    IN  CodecCall([NoCall EXCEPT !.op = op, !.text = prose, !.duration = duration], srt,
                  IF parsedSegments.threw THEN segments ELSE parsedSegments.segments,
                  [threw |-> parsedSegments.threw, value |-> <<>>])

\* textToSRT (word-weighted) on a prose text and the duration of its audio
EstimateTiming ==
    /\ call.op = "none" /\ segments = <<>>
    /\ \E prose \in ProseTexts, duration \in AudioDurations :
           EstimateCall("textToSRT", prose, duration, textToSRT(prose, duration))

\* textToSRT (uniform) on a prose text and the duration of its audio
EstimateTimingUniform ==
    /\ call.op = "none" /\ segments = <<>>
    /\ \E prose \in ProseTexts, duration \in AudioDurations :
           EstimateCall("textToSRTUniform", prose, duration, textToSRTUniform(prose, duration))

CodecNext ==
    \/ Serialize \/ ParseBack \/ ParseText \/ ParseTimestamp
    \/ EstimateTiming \/ EstimateTimingUniform

CodecSpec == CodecInit /\ [][CodecNext]_vars

---------------------------------------------------------------------------
(* What the claims speak of *)

WellFormed(segs) == Sorted(segs) /\ NonOverlapping(segs) /\ NonDegenerate(segs)

\* the position the call's ID resolves to in the list the call was given
Target == FindIndex(input, call.id)

\* the positions of the list the call was given that a merge selects
Selected == {i \in 1..Len(input) : Includes(call.ids, input[i].id)}

\* a segment without its ID
Strip(seg) == [startTime |-> seg.startTime, endTime |-> seg.endTime, text |-> seg.text]

\* the two lists hold the same segments in the same order, IDs aside
SameContent(a, b) == Len(a) = Len(b) /\ \A i \in 1..Len(a) : Strip(a[i]) = Strip(b[i])

\* the number of segments of the list that are x, IDs aside
Count(segs, x) == Cardinality({i \in 1..Len(segs) : Strip(segs[i]) = x})

\* the two lists hold the same segments, IDs and order aside
SameSegments(a, b) ==
    /\ Len(a) = Len(b)
    /\ \A i \in 1..Len(a) : Count(a, Strip(a[i])) = Count(b, Strip(a[i]))


RECURSIVE Words(_)
\* the white-space-delimited words of a text
Words(text) ==
    LET from == InkFrom(text, 1)
    IN  IF from > Len(text) THEN <<>>
        ELSE LET rest == SubSeq(text, from, Len(text))
                 spaces == {i \in 1..Len(rest) : IsSpace(rest[i])}
                 stop == IF spaces = {} THEN Len(rest) + 1
                         ELSE CHOOSE i \in spaces : \A j \in spaces : i <= j
             IN  <<SubSeq(rest, 1, stop - 1)>> \o Words(SubSeq(rest, stop, Len(rest)))

\* the call is a split that takes effect
ValidSplit ==
    /\ call.op = "split" /\ Target > 0
    /\ input[Target].startTime < call.time /\ call.time < input[Target].endTime

\* the position in the returned list of the segment an insert has added
NewPosition ==
    IF call.position.kind = "beginning" THEN 1
    ELSE IF call.position.kind = "end" THEN Len(input) + 1
    ELSE InsertIndex(input, call.position) + 1

\* the call is a merge, split, delete or insert
Structural == call.op \in {"merge", "split", "delete", "insert"}

\* the call takes effect: a merge whose IDs resolve to two segments or more,
\* a split of a segment of the list at a time strictly inside it, a delete
\* of a segment of the list, any insert
Effective ==
    \/ call.op = "merge" /\ Len(call.ids) >= 2 /\ Cardinality(Selected) >= 2
    \/ call.op = "split" /\ Target > 0
       /\ input[Target].startTime < call.time /\ call.time < input[Target].endTime
    \/ call.op = "delete" /\ Target > 0
    \/ call.op = "insert"

---------------------------------------------------------------------------
(* C1: starting from a sorted, non-overlapping list of segments with       *)
(* startTime < endTime, after any sequence of editor calls adjacent        *)
(* segments of the returned list never overlap:                            *)
(* segments[i].endTime <= segments[i+1].startTime.                         *)
C1_NoOverlapAfterEdits == WellFormed(start) => NonOverlapping(segments)

C3_SortedAfterEdits == Sorted(start) => Sorted(segments)

(* C4: starting from a list whose segments all have startTime < endTime,   *)
(* no editor call returns a segment with startTime >= endTime.             *)
C4_NoDegenerateSegment == NonDegenerate(start) => NonDegenerate(segments)

(* C5: the list the transcript panel holds has IDs exactly 1..N in list    *)
(* order in every reachable state: after a load, and after any sequence of *)
(* edits, undo, redo and cancel.                                           *)
C5_PanelIdsDense == DenseIds(segments)

(* C6: after a delete of the first segment that leaves a segment, and      *)
(* after a retime of the first segment with any newEndTime, the first      *)
(* segment of the returned list has startTime = 0.                         *)
C6_FrontPin ==
    /\ (call.op = "delete" /\ Target = 1 /\ Len(segments) > 0) => segments[1].startTime = 0
    /\ (call.op = "retime" /\ Target = 1) => segments[1].startTime = 0

\* a delete of the first segment has moved the next segment's start to 0
C6_Witness ==
    /\ call.op = "delete" /\ Target = 1
    /\ Len(input) >= 2 /\ input[2].startTime > 0
    /\ Len(segments) = Len(input) - 1

(* C7: a merge of fewer than two IDs, a merge whose IDs resolve to fewer   *)
(* than two segments, and a split, delete, retime or updateText with an ID *)
(* that is not in the list return the list they were given.                *)
C7_NoOpSafety ==
    /\ (call.op = "merge" /\ (Len(call.ids) < 2 \/ Cardinality(Selected) < 2))
           => segments = input
    /\ (call.op \in {"split", "delete", "retime", "updateText"} /\ Target = 0)
           => segments = input

\* a delete with an ID that is not in a non-empty list has returned
C7_Witness == call.op = "delete" /\ Target = 0 /\ Len(input) >= 2 /\ nops > 0

(* C8: a split whose splitTime is not strictly inside the target segment   *)
(* (splitTime <= startTime or splitTime >= endTime) returns the list it    *)
(* was given.                                                              *)
C8_SplitOutsideIsNoOp ==
    (call.op = "split" /\ Target > 0
     /\ (call.time <= input[Target].startTime \/ call.time >= input[Target].endTime))
        => segments = input

\* a split exactly at the end boundary of a well-formed segment has returned
C8_Witness ==
    /\ call.op = "split" /\ Target > 0
    /\ input[Target].startTime < input[Target].endTime
    /\ call.time = input[Target].endTime

(* C9: a merge of k >= 2 segments of the list returns N-k+1 segments: the  *)
(* selected ones are replaced by one segment that starts at the startTime  *)
(* of the selected segment earliest in time, ends at the endTime of the    *)
(* selected segment latest in time and has the selected texts joined by    *)
(* single spaces in time order; every unselected segment keeps its         *)
(* startTime, endTime and text.                                            *)
C9_MergeResult ==
    (call.op = "merge" /\ Len(call.ids) >= 2 /\ Cardinality(Selected) >= 2)
        => LET inTimeOrder == SortByStart(SelectSeq(input, LAMBDA seg : Includes(call.ids, seg.id)))
               k == Len(inTimeOrder)
               merged == [startTime |-> inTimeOrder[1].startTime,
                          endTime |-> inTimeOrder[k].endTime,
                          text |-> Flatten([i \in 1..k |-> inTimeOrder[i].text], <<" ">>)]
               unselected == SelectSeq(input, LAMBDA seg : ~Includes(call.ids, seg.id))
           IN  /\ Len(segments) = Len(input) - k + 1
               /\ \E p \in 1..Len(segments) :
                      /\ Strip(segments[p]) = merged
                      /\ SameSegments(Without(segments, p), unselected)

(* C10: a split of the segment at position k at a time strictly inside it  *)
(* returns N+1 segments: position k is [original.startTime, splitTime],    *)
(* position k+1 is [splitTime, original.endTime], and every other segment  *)
(* keeps its startTime, endTime, text and relative order.                  *)
C10_SplitResult ==
    (call.op = "split" /\ Target > 0
     /\ input[Target].startTime < call.time /\ call.time < input[Target].endTime)
        => /\ Len(segments) = Len(input) + 1
           /\ segments[Target].startTime = input[Target].startTime
           /\ segments[Target].endTime = call.time
           /\ segments[Target + 1].startTime = call.time
           /\ segments[Target + 1].endTime = input[Target].endTime
           /\ \A i \in 1..(Target - 1) : Strip(segments[i]) = Strip(input[i])
           /\ \A i \in (Target + 1)..Len(input) : Strip(segments[i + 1]) = Strip(input[i])

\* a split strictly inside a segment that has a segment on either side
C10_Witness ==
    /\ call.op = "split" /\ Target > 1 /\ Target < Len(input)
    /\ input[Target].startTime < call.time /\ call.time < input[Target].endTime
    /\ Len(segments) = Len(input) + 1

(* C11: a split without explicit texts partitions the white-space-         *)
(* delimited words of the original text at index floor(wordCount / 2): the *)
(* first new segment's text is the first floor(wordCount / 2) words and    *)
(* the second's is the remaining words, each joined by single spaces.      *)
C11_SplitDefaultTexts ==
    (ValidSplit /\ call.firstText = <<>> /\ call.secondText = <<>>)
        => LET words == Words(input[Target].text)
               midPoint == Len(words) \div 2
           IN  /\ segments[Target].text = Flatten(SubSeq(words, 1, midPoint), <<" ">>)
               /\ segments[Target + 1].text
                      = Flatten(SubSeq(words, midPoint + 1, Len(words)), <<" ">>)

(* C12: a delete of an ID of the list returns N-1 segments: every other    *)
(* segment, in the original order, with its startTime, endTime and text    *)
(* unchanged, except that the new first segment's startTime may be 0 when  *)
(* the deleted segment was the first one.                                  *)
C12_DeleteResult ==
    (call.op = "delete" /\ Target > 0)
        => /\ Len(segments) = Len(input) - 1
           /\ \A i \in 1..(Target - 1) : Strip(segments[i]) = Strip(input[i])
           /\ \A i \in (Target + 1)..Len(input) :
                  /\ segments[i - 1].endTime = input[i].endTime
                  /\ segments[i - 1].text = input[i].text
                  /\ \/ segments[i - 1].startTime = input[i].startTime
                     \/ Target = 1 /\ i = 2 /\ segments[1].startTime = 0

\* a delete of a segment that has a segment before it, which does not start
\* at 0, and a segment after it
C12_Witness ==
    /\ call.op = "delete" /\ Target > 1 /\ Target < Len(input)
    /\ input[1].startTime > 0
    /\ Len(segments) = Len(input) - 1

(* C13: a retime of an ID of the list to time t sets the target's endTime  *)
(* to t and the startTime of the segment after it, when there is one, to   *)
(* t; the length, all IDs, all texts, that segment's endTime and every     *)
(* other segment are unchanged, and so is the target's startTime unless    *)
(* the target is the first segment.                                        *)
C13_RetimeResult ==
    (call.op = "retime" /\ Target > 0)
        => /\ Len(segments) = Len(input)
           /\ \A i \in 1..Len(input) :
                  segments[i].id = input[i].id /\ segments[i].text = input[i].text
           /\ segments[Target].endTime = call.time
           /\ Target # 1 => segments[Target].startTime = input[Target].startTime
           /\ Target < Len(input)
                  => /\ segments[Target + 1].startTime = call.time
                     /\ segments[Target + 1].endTime = input[Target + 1].endTime
           /\ \A i \in 1..Len(input) : i \notin {Target, Target + 1} => segments[i] = input[i]

\* a retime of a segment that has a segment on either side, to a time that
\* is not its endTime
C13_Witness ==
    /\ call.op = "retime" /\ Target > 1 /\ Target < Len(input)
    /\ call.time # input[Target].endTime
    /\ segments[Target + 1].startTime = call.time

(* C14: an updateText of an ID of the list replaces that segment's text    *)
(* with newText as given, also when newText is empty or white space only:  *)
(* the segment stays, the length is unchanged, and all IDs, all start and  *)
(* end times and every other text are unchanged.                           *)
C14_UpdateTextResult ==
    (call.op = "updateText" /\ Target > 0)
        => /\ Len(segments) = Len(input)
           /\ segments[Target].text = call.text
           /\ \A i \in 1..Len(input) :
                  /\ segments[i].id = input[i].id
                  /\ segments[i].startTime = input[i].startTime
                  /\ segments[i].endTime = input[i].endTime
                  /\ i # Target => segments[i].text = input[i].text

\* an updateText with a text of white space only on a list of two segments
\* or more
C14_Witness ==
    /\ call.op = "updateText" /\ Target > 0
    /\ call.text = <<" ">>
    /\ Len(input) >= 2
    /\ segments[Target].text = <<" ">>

(* C15: an insert at any position with a duration > 0 on a sorted list     *)
(* without overlap places the new segment so that it overlaps neither      *)
(* neighbour in the returned list (previous.endTime <= new.startTime and   *)
(* new.endTime <= next.startTime); the segments of the list keep their     *)
(* endTime and text, and only the segment after the new one may have its   *)
(* startTime moved, and only when the room in front of it is shorter than  *)
(* the duration.                                                           *)
C15_InsertFits ==
    (call.op = "insert" /\ call.duration > 0 /\ Sorted(input) /\ NonOverlapping(input))
        => LET p == NewPosition
               room == input[p].startTime - (IF p = 1 THEN 0 ELSE input[p - 1].endTime)
           IN  /\ Len(segments) = Len(input) + 1
               /\ p > 1 => segments[p - 1].endTime <= segments[p].startTime
               /\ p < Len(segments) => segments[p].endTime <= segments[p + 1].startTime
               /\ \A i \in 1..(p - 1) : Strip(segments[i]) = Strip(input[i])
               /\ \A i \in p..Len(input) :
                      /\ segments[i + 1].endTime = input[i].endTime
                      /\ segments[i + 1].text = input[i].text
                      /\ \/ segments[i + 1].startTime = input[i].startTime
                         \/ i = p /\ room < call.duration

(* C16: an insert at 'beginning' of a non-empty list returns a list whose  *)
(* first segment is the new one, starting at 0, and whose second segment   *)
(* is the old first segment with its startTime equal to the new segment's  *)
(* endTime and not earlier than it was.                                    *)
C16_InsertAtBeginning ==
    (call.op = "insert" /\ call.position = Beginning /\ Len(input) > 0)
        => /\ Len(segments) = Len(input) + 1
           /\ segments[1].startTime = 0
           /\ segments[1].text = call.text
           /\ segments[2].text = input[1].text
           /\ segments[2].endTime = input[1].endTime
           /\ segments[2].startTime = segments[1].endTime
           /\ segments[2].startTime >= input[1].startTime

\* the array model and the value model of the editor return the same list
MemoryAgrees == call.op # "none" => InMemory(call, input).result = segments

\* C17: no editor operation (merge, split, delete, insert, retime, updateText)
\* mutates its input: after the call the caller's input list has the same
\* length, order and segment field values as before the call, whether or not
\* the operation took effect.
C17_InputNotMutated == call.op # "none" => passed = input

\* a retime that changed two segments of the returned list and left the
\* caller's list as it was
C17_Witness ==
    /\ call.op = "retime"
    /\ Len(input) >= 2
    /\ \E i \in 1..(Len(input) - 1) :
           segments[i] # input[i] /\ segments[i + 1] # input[i + 1]
    /\ passed = input

\* the segment contains the time exactly
Contains(segment, time) == segment.startTime <= time /\ time <= segment.endTime

\* the position of the first segment, in list order, that satisfies Test; 0
\* when there is none
FirstThat(segs, Test(_)) ==
    IF \E i \in 1..Len(segs) : Test(segs[i])
    THEN CHOOSE i \in 1..Len(segs) :
             Test(segs[i]) /\ \A j \in 1..(i - 1) : ~Test(segs[j])
    ELSE 0

FirstExact(segs, time) == FirstThat(segs, LAMBDA seg : Contains(seg, time))

\* the lookup of lines 71-81 returns the first segment that contains the time
\* exactly, and null when there is none
StrictReturnsFirstExact ==
    call.op = "findStrict" => active = FirstExact(input, call.time)

\* C18: whenever at least one segment contains the time exactly
\* (startTime <= time <= endTime), findActive returns the first such segment in
\* list order; the tolerance and the nearest-segment fallback are used only
\* when no segment contains the time exactly.
C18_ExactMatchFirst ==
    (call.op = "find" /\ FirstExact(input, call.time) # 0)
        => active = FirstExact(input, call.time)

\* C19: for two adjacent segments sharing a boundary b (first.endTime =
\* second.startTime = b), findActive(list, b) returns the earlier of the two
\* in list order.
C19_SharedBoundary ==
    call.op = "find" =>
        \A i \in 1..(Len(input) - 1) :
            (input[i].endTime = input[i + 1].startTime /\ call.time = input[i].endTime)
                => active = i

\* how far the time is from the segment: 0 when the segment contains it
Gap(segment, time) ==
    Max(0, Max(segment.startTime - time, time - segment.endTime))

\* the fallback of the lookup: the first segment within the tolerance, else the
\* earliest of the segments at minimal distance when that distance is within
\* range, else null
Fallback(segs, time) ==
    LET within == FirstThat(segs, LAMBDA seg : Gap(seg, time) <= tolerance)
        nearest == FirstThat(segs, LAMBDA seg :
                                 \A j \in 1..Len(segs) : Gap(seg, time) <= Gap(segs[j], time))
    IN  IF within # 0 THEN within
        ELSE IF nearest # 0 /\ Gap(segs[nearest], time) <= ClosestRange THEN nearest
        ELSE 0

Arrow == <<" ", "-", "-", ">", " ">>

\* the segments whose text has a character that is not white space
WithInk(segs) ==
    SelectSeq(segs, LAMBDA seg : \E i \in 1..Len(seg.text) : ~IsSpace(seg.text[i]))

\* the positions of the timing lines among lines, in increasing order
TimingLines(lines) == SetToSeq({p \in 1..Len(lines) : IndexOf(lines[p], Arrow, 1) # 0})

\* the k-th timing line of lines, at position p, belongs to a block that is
\* numbered k and holds the times and the text of segment seg
IsBlockOf(lines, p, k, seg) ==
    LET textLines == SplitOn(seg.text, <<"\n">>)
    IN  /\ p > 1 /\ lines[p - 1] = Digits(k)
        /\ lines[p] = formatSRTTimestamp(seg.startTime) \o Arrow
                      \o formatSRTTimestamp(seg.endTime)
        /\ p + Len(textLines) + 1 <= Len(lines)
        /\ SubSeq(lines, p + 1, p + Len(textLines)) = textLines
        /\ lines[p + Len(textLines) + 1] = <<>>

\* C21: serialize emits exactly one block per segment whose text is not empty
\* or white space only, in list order, numbered 1..M consecutively regardless
\* of the input IDs; a segment with an empty text never appears in the output.
C21_SerializeBlocks ==
    call.op = "serialize" =>
        LET kept == WithInk(input)
            lines == SplitOn(transcript, <<"\n">>)
            timing == TimingLines(lines)
        IN  /\ Len(timing) = Len(kept)
            /\ \A k \in 1..Len(kept) : IsBlockOf(lines, timing[k], k, kept[k])

\* a list whose IDs are not 1..N and that has a segment with a blank text
\* before a segment with a text was serialized
C21_Witness ==
    /\ call.op = "serialize"
    /\ Len(WithInk(input)) >= 2
    /\ ~DenseIds(input)
    /\ \E i \in 1..(Len(input) - 1) : IsBlank(input[i].text) /\ ~IsBlank(input[i + 1].text)

\* no time of the list is NaN
Timed(segs) ==
    \A i \in 1..Len(segs) : ~IsNaN(segs[i].startTime) /\ ~IsNaN(segs[i].endTime)

\* the (startTime, endTime, text) triples of a list, in order
Triples(segs) ==
    [i \in 1..Len(segs) |-> <<segs[i].startTime, segs[i].endTime, segs[i].text>>]

\* a list the round trip is claimed for: times of whole milliseconds, in time
\* order without overlap, IDs 1..N, no text empty or blank
RoundTripList(segs) ==
    /\ Timed(segs) /\ WellFormed(segs) /\ DenseIds(segs)
    /\ \A i \in 1..Len(segs) : ~IsBlank(segs[i].text)

\* C22: round trip: for any well-formed, non-overlapping list with IDs 1..N
\* (times in whole milliseconds, texts non-empty and possibly multi-line),
\* parse(serialize(list)) yields the same number of segments with the same
\* (startTime, endTime, text) triples in the same order.
C22_RoundTrip ==
    (call.op = "parse" /\ RoundTripList(input) /\ call.text = segmentsToSRT(input))
        => (~outcome.threw /\ Timed(segments) /\ Triples(segments) = Triples(input))

\* the kinds of the blocks of a text
Kinds(blocks) == {blocks[i].kind : i \in 1..Len(blocks)}

\* the triples of the well-formed blocks of a text, in the order of the text
GoodTriples(blocks) ==
    LET good == SetToSeq({i \in 1..Len(blocks) : blocks[i].kind = "good"})
    IN  [k \in 1..Len(good) |->
            <<BlockStart(good[k]), BlockEnd(good[k]), BlockText(blocks[good[k]])>>]

\* parseSRT was called on the text of blocks and returned, without throwing,
\* exactly the segments of its well-formed blocks
ParsedGoodBlocks(blocks) ==
    /\ ~outcome.threw
    /\ Len(segments) = Len(GoodTriples(blocks))
    /\ Timed(segments)
    /\ Triples(segments) = GoodTriples(blocks)

\* C23: for any input made of blank-line-separated blocks in which some
\* blocks' second line lacks the ' --> ' delimiter (whatever number of text
\* lines those blocks have), parse skips each such block without emitting a
\* segment for it and continues, returning exactly one segment for each
\* remaining well-formed block, in input order.
C23_SkipsBlockWithoutArrow ==
    (call.op = "parse" /\ nsteps = 1) =>
        \A blocks \in BlockSeqs :
            (call.text = Rendered[blocks] /\ Kinds(blocks) \subseteq {"good", "noArrow"})
                => ParsedGoodBlocks(blocks)

\* C24: a candidate block whose timing line has the delimiter but contains a
\* malformed timestamp token is skipped: parse emits no segment for it (in
\* particular none with undefined or NaN times), does not abort or throw, and
\* still returns the segments of the other blocks.
C24_SkipsMalformedTimestamp ==
    (call.op = "parse" /\ nsteps = 1) =>
        \A blocks \in BlockSeqs :
            (call.text = Rendered[blocks]
             /\ Kinds(blocks) \subseteq {"good", "noComma", "noColon"})
                => ParsedGoodBlocks(blocks)

\* the token has the form HH:MM:SS,mmm
IsTimestamp(token) ==
    /\ Len(token) = 12
    /\ \A i \in {1, 2, 4, 5, 7, 8, 10, 11, 12} : IsDigit(token[i])
    /\ token[3] = ":" /\ token[6] = ":" /\ token[9] = ","

\* hours*3600 + minutes*60 + seconds + milliseconds/1000 of a token of the
\* form HH:MM:SS,mmm, in milliseconds
TimestampValue(token) ==
    DigitsValue(SubSeq(token, 1, 2)) * 3600000 + DigitsValue(SubSeq(token, 4, 5)) * 60000
    + DigitsValue(SubSeq(token, 7, 8)) * 1000 + DigitsValue(SubSeq(token, 10, 12))

\* C25: parseTimestamp fails with a format error for every token that does not
\* split into exactly 3 colon-separated fields, and for every token whose
\* third field does not split on a comma into seconds and milliseconds; it
\* returns a number only for tokens of the form HH:MM:SS,mmm, for which the
\* result is hours*3600 + minutes*60 + seconds + milliseconds/1000.
C25_TimestampFormat ==
    call.op = "timestamp" =>
        LET fields == SplitOn(call.text, <<":">>)
        IN  /\ Len(fields) # 3 => outcome.threw
            /\ (Len(fields) = 3 /\ Len(SplitOn(fields[3], <<",">>)) # 2) => outcome.threw
            /\ outcome.value # <<>> => IsTimestamp(call.text)
            /\ IsTimestamp(call.text) =>
                   (~outcome.threw /\ outcome.value = <<TimestampValue(call.text)>>)


\* the number of sentences of a prose text that are not empty: the runs of
\* characters between sentence terminators that hold a character other than
\* white space
SentenceCount(text) ==
    Cardinality({i \in 1..Len(text) :
        /\ ~IsTerminator(text[i])
        /\ i = 1 \/ IsTerminator(text[i - 1])
        /\ \E j \in i..Len(text) :
               /\ ~IsSpace(text[j])
               /\ \A k \in i..j : ~IsTerminator(text[k])})

Estimated == call.op \in {"textToSRT", "textToSRTUniform"}

\* C26: for a text with at least one sentence that is not empty and a positive
\* duration the timing estimate produces one segment per sentence, with
\* strictly increasing end times, the last end time at most the duration and
\* startTime < endTime in every segment.
C26_TimingBounds ==
    (Estimated /\ SentenceCount(call.text) >= 1 /\ call.duration > 0) =>
        /\ ~outcome.threw
        /\ Timed(segments)
        /\ Len(segments) = SentenceCount(call.text)
        /\ \A i \in 1..Len(segments) : segments[i].startTime < segments[i].endTime
        /\ \A i \in 1..(Len(segments) - 1) : segments[i].endTime < segments[i + 1].endTime
        /\ segments[Len(segments)].endTime <= call.duration

C28_SaveState ==
    [][call'.op = "retime" =>
          LET kept == SubSeq(history, 1, historyIndex + 1)
              retained == IF Len(kept) + 1 > 50 THEN Tail(kept) ELSE kept
          IN  /\ historyIndex' = Len(history') - 1
              /\ history'[Len(history')] = segments'
              /\ SubSeq(history', 1, Len(history') - 1) = retained
              /\ RedoDisabled']_vars

\* the number of a list in the row of lists the session saves one after the
\* other, the list as loaded being number 1: each mark moves the end of the
\* first segment one second on
SavedNumber(segs) == (segs[1].endTime - start[1].endTime) \div 1000 + 1

\* C29: the history never holds more than 50 snapshots; the snapshots it
\* holds are successive saves, so that the oldest are evicted first; and in a
\* full history every undo moves the cursor back by one down to the oldest
\* retained snapshot and stops there, which is not the first saved state once
\* more than 50 states have been saved in a row.
C29_HistoryBound ==
    /\ [](/\ Len(history) <= 50
          /\ historyIndex \in (-1)..(Len(history) - 1)
          /\ \A i \in 1..(Len(history) - 1) :
                 SavedNumber(history[i + 1]) = SavedNumber(history[i]) + 1
          /\ (Len(history) > 0 /\ SavedNumber(history[Len(history)]) > 50) =>
                 /\ SavedNumber(history[1]) > 1
                 /\ history[1] # DeepClone(start))
    /\ [][(call'.op = "undo" /\ Len(history) = 50) =>
              /\ history' = history
              /\ historyIndex' = Max(historyIndex - 1, 0)
              /\ segments' = history[historyIndex' + 1]]_vars

\* undo was applied from the tail of a full history down to the oldest
\* retained snapshot, after the first saved state had been evicted
C29_Witness ==
    /\ call.op = "undo"
    /\ Len(history) = 50 /\ historyIndex = 0
    /\ SavedNumber(history[50]) > 50
    /\ segments = history[1] /\ history[1] # DeepClone(start)

\* C30: undo takes effect exactly when the cursor is > 0, which is when the
\* Undo button is enabled: the cursor goes down by one, the current list
\* becomes the snapshot at the new cursor and the history stays as it is;
\* with the cursor at 0 or an empty history undo changes none of the three.
C30_Undo ==
    [][call'.op = "undo" =>
          /\ historyIndex > 0 <=> ~UndoDisabled
          /\ IF historyIndex > 0
             THEN /\ historyIndex' = historyIndex - 1
                  /\ segments' = history[historyIndex' + 1]
                  /\ history' = history
             ELSE UNCHANGED <<historyIndex, history, segments>>]_vars

\* an undo has moved the cursor back from a later snapshot
C30_Witness ==
    /\ call.op = "undo"
    /\ historyIndex >= 0 /\ historyIndex < Len(history) - 1
    /\ segments = history[historyIndex + 1]
    /\ segments # history[historyIndex + 2]


\* C31: redo takes effect exactly when the cursor is < length - 1, which is
\* when the Redo button is enabled: the cursor goes up by one, the current
\* list becomes the snapshot at the new cursor and the history stays as it
\* is; at the tail redo changes none of the three.  A redo that follows an
\* undo that took effect restores the cursor and the list the undo found.
C31_Redo ==
    [][call'.op = "redo" =>
          /\ historyIndex < Len(history) - 1 <=> ~RedoDisabled
          /\ IF historyIndex < Len(history) - 1
             THEN /\ historyIndex' = historyIndex + 1
                  /\ segments' = history[historyIndex' + 1]
                  /\ history' = history
             ELSE UNCHANGED <<historyIndex, history, segments>>
          /\ (call.op = "undo" /\ call.cursor > 0) =>
                 /\ historyIndex' = call.cursor
                 /\ segments' = input]_vars


\* C33: whenever the history is not empty, the list the panel shows is the
\* snapshot at the history cursor.
C33_ListIsSnapshotAtCursor ==
    Len(history) > 0 =>
        /\ historyIndex \in 0..(Len(history) - 1)
        /\ segments = history[historyIndex + 1]


\* C34: when a new transcript text is loaded, the history afterwards holds
\* nothing but the list loaded from that text: no snapshot of an earlier
\* transcript is left for undo or redo, also when the new text yields no
\* segment and when the load follows a save.
C34_LoadResetsHistory ==
    [][transcript' # transcript =>
          /\ \A i \in 1..Len(history') : history'[i] = segments'
          /\ Len(history') <= 1
          /\ historyIndex' = Len(history') - 1]_vars


\* every ID in the merge selection is the ID of a segment of the list
SelectionDenotes ==
    \A k \in 1..Len(selectedSegments) : FindIndex(segments, selectedSegments[k]) > 0

\* C35: in edit mode every ID in the merge selection is the ID of a segment
\* of the current list, after every click, delete, split, insert, merge,
\* undo and redo (every step that stays in edit mode on the same transcript)
C35_SelectionDenotesSegments ==
    [][(isEditing /\ isEditing' /\ transcript' = transcript /\ SelectionDenotes)
           => SelectionDenotes']_vars

C32_NoFlicker ==
    (call.op = "find" /\ Sorted(segments) /\ NonOverlapping(segments) /\ active # 0) =>
        \A t \in LookupTimes :
            t <= call.time => findCurrentSegment(segments, t) <= active

\* a sample within the tolerance before the start of a segment returned that
\* segment, and an earlier sample returns the segment before it
C32_Witness ==
    /\ call.op = "find"
    /\ Sorted(segments) /\ NonOverlapping(segments)
    /\ active > 1
    /\ call.time < segments[active].startTime
    /\ segments[active].startTime - call.time <= tolerance
    /\ \E t \in LookupTimes : t < call.time /\ findCurrentSegment(segments, t) = active - 1


\* C37: after a click on a segment in normal mode the lock of the seek is
\* released in the end, and the highlight is then the segment the lookup
\* returns for the list and the playback time
C37_LockReleased ==
    isSeekingFromClick ~>
        (~isSeekingFromClick /\ currentSegment = FoundSegment(segments, currentTime))

\* C37, the click: the clicked segment is the highlight and the lock is held
C37_ClickHighlights ==
    [][call'.op = "click" =>
          /\ isSeekingFromClick'
          /\ \E i \in 1..Len(segments) :
                 currentSegment' = <<segments[i]>> /\ currentTime' = segments[i].startTime]_vars

\* C37, the lock: while it is held a playback time update leaves the highlight
C37_LockSuppresses ==
    [][(isSeekingFromClick /\ call'.op = "timeupdate") =>
          UNCHANGED currentSegment]_vars


\* C38: a card has at most one call of handleGenerateTranscript that has not
\* returned; a request made while isGeneratingTranscript is set starts
\* nothing; and the flag of a card that is set is cleared in the end,
\* whether transcribeAudio returns a transcript, returns nothing or throws
C38_OneInFlight ==
    /\ [](\A i \in 1..Len(transcriptions) : Len(transcriptions[i]) <= 1)
    /\ [][(call'.op = "generate" /\ isGeneratingTranscript[call'.id]) =>
             UNCHANGED <<transcriptions, isGeneratingTranscript, audioFiles>>]_vars
    /\ \A i \in 1..2 : isGeneratingTranscript[i] ~> ~isGeneratingTranscript[i]

\* the Generate button of a card was used while the call of that card was
\* awaiting transcribeAudio
C38_Witness ==
    /\ call.op = "generate"
    /\ isGeneratingTranscript[call.id]
    /\ transcriptions[call.id] = <<"transcribe">>


\* C39: when a transcript file has been processed, every audio file of the
\* library whose name is the base name of the file, but for the case of the
\* letters, has the text of the file as its transcript and hasTranscript
\* set, and every other audio file is as it was
C39_TranscriptLinked ==
    [][call'.op = "transcript" =>
          /\ Len(audioFiles') = Len(audioFiles)
          /\ \A i \in 1..Len(audioFiles) :
                 IF toLowerCase(audioFiles[i].name) = toLowerCase(BaseName(call'.text))
                 THEN audioFiles'[i] = [audioFiles[i] EXCEPT
                                           !.transcript = <<call'.firstText>>,
                                           !.hasTranscript = TRUE]
                 ELSE audioFiles'[i] = audioFiles[i]]_vars

=============================================================================
